---- MODULE Spec2Model ----
(***************************************************************************)
(* A model of the Puffing language core (src/puffing/src): the lexer, the  *)
(* evaluator's operator and index semantics, and the interpreter's         *)
(* environment (variables / constants / libraries) under calls and loops.  *)
(*                                                                         *)
(* The host language is Python: where the source relies on a host          *)
(* operation (list indexing, list.insert, slicing, %, comparison) the      *)
(* model computes what that host operation does, including the host        *)
(* exception it raises.  An outcome is a value, an error of the runtime    *)
(* category (src.errors.RuntimeError and its subclasses), a LexerError,    *)
(* or a host exception, which main.run_puffing_file reports as "Unknown    *)
(* Error".                                                                 *)
(***************************************************************************)
EXTENDS Integers, Sequences, FiniteSets, TLC

VARIABLES
    call,       \* evaluation of one node: the operation and its operands
    result,     \* evaluation of one node: the outcome of the operation
    lexer,      \* the Lexer object: text, pos, line, column
    lexed,      \* tokenize: the tokens list, how tokenize ended, last branch
    variables,  \* Interpreter.variables: name -> value (or Unbound)
    constants,  \* Interpreter.constants: the names declared with lock
    libraries,  \* Interpreter.libraries: the imported libraries
    heap,       \* the containers (list, dict, set objects) by address
    stack,      \* the active calls and loops, innermost first
    status,     \* "running", or how run ended
    ev,         \* the last statement evaluated and what it observed
    steps,      \* statements evaluated so far
    output      \* the characters written to sys.stdout so far

evalVars == <<call, result>>
lexVars == <<lexer, lexed>>
runVars == <<variables, constants, libraries, heap, stack, status, ev, steps, output>>
vars == <<evalVars, lexVars, runVars>>

\* The parts of the state a specification does not exercise stay as they are
\* after construction.
EvalIdle ==
    /\ call = [op |-> "none"]
    /\ result = [cat |-> "pending"]

LexerIdle ==
    /\ lexer = [text |-> <<>>, pos |-> 0, line |-> 1, column |-> 1]
    /\ lexed = [tokens |-> <<>>, status |-> "idle", last |-> ""]


-----------------------------------------------------------------------------
(* Values.  Every value is a record of one shape:                          *)
(*   k  the kind (Python type), n/d an integer or the numerator and        *)
(*   denominator of a float, s the items of a str (its characters, each    *)
(*   an int value holding the code point), of a list (its elements), of a  *)
(*   set (its elements) or of a dict (key, value, key, value, ... in       *)
(*   insertion order).                                                     *)

V(kind, num, den, seq) == [k |-> kind, n |-> num, d |-> den, s |-> seq]

NoneV      == V("none", 0, 1, <<>>)
IntV(i)    == V("int", i, 1, <<>>)
BoolV(b)   == V("bool", IF b THEN 1 ELSE 0, 1, <<>>)
StrV(cs)   == V("str", 0, 1, cs)
ListV(es)  == V("list", 0, 1, es)
DictV(kvs) == V("dict", 0, 1, kvs)
SetV(es)   == V("set", 0, 1, es)
FunV(id)   == V("fun", id, 1, <<>>)

\* isinstance(x, int): Python's bool is a subclass of int.
IsInt(x) == x.k \in {"int", "bool"}

(* Outcomes of an evaluation.                                              *)
Outcome(c, e, val, container) == [cat |-> c, exc |-> e, v |-> val, arr |-> container]
Pending            == Outcome("pending", "", NoneV, NoneV)
Value(val)         == Outcome("value", "", val, NoneV)
ValueIn(val, cont) == Outcome("value", "", val, cont)
\* raise PuffingRuntimeError(...): the runtime category
RuntimeErr(cont)   == Outcome("runtime", "RuntimeError", NoneV, cont)
\* an exception of the host that no handler of the core converts
HostErr(e, cont)   == Outcome("host", e, NoneV, cont)

-----------------------------------------------------------------------------
(* The interpreter state (Interpreter.__init__): variables is a mapping    *)
(* over the names a program uses; a name the dict does not hold maps to    *)
(* Unbound.  A container value in the mapping is a reference to the heap,  *)
(* so that two names can hold the same object.                             *)

Names == {"a", "e", "p", "f"}

Unbound == V("unbound", 0, 1, <<>>)
Ref(addr) == V("ref", addr, 1, <<>>)
LambdaV(id) == V("lambda", id, 1, <<>>)

EmptyMapping == [n \in Names |-> Unbound]

MaxAddr == 2
Addrs == 1..MaxAddr
EmptyHeap == [x \in Addrs |-> NoneV]

NoEvent ==
    [kind |-> "", name |-> "", how |-> "", pre |-> EmptyMapping, flag |-> FALSE,
     touched |-> FALSE, args |-> <<>>]

RunIdle ==
    /\ variables = EmptyMapping
    /\ constants = {}
    /\ libraries = {}
    /\ heap = EmptyHeap
    /\ stack = <<>>
    /\ status = "running"
    /\ ev = NoEvent
    /\ steps = 0
    /\ output = <<>>

-----------------------------------------------------------------------------
(* Host sequence operations (Python list / str), zero-based.               *)

\* the zero-based slot Python's seq[i] addresses, or -1 for IndexError
PySlot(len, i) ==
    LET j == IF i < 0 THEN i + len ELSE i
    IN  IF j < 0 \/ j >= len THEN -1 ELSE j

\* list.insert(i, x): the index is clamped into 0..len, never an error
PyInsert(es, i, x) ==
    LET len == Len(es)
        j0  == IF i < 0 THEN i + len ELSE i
        j   == IF j0 < 0 THEN 0 ELSE IF j0 > len THEN len ELSE j0
    IN  SubSeq(es, 1, j) \o <<x>> \o SubSeq(es, j + 1, len)

\* seq without zero-based slot j (0 <= j < len)
PyDelete(es, j) == SubSeq(es, 1, j) \o SubSeq(es, j + 2, Len(es))

\* seq[lo:hi]: both ends are clamped, a negative end counts from the end
PySlice(es, lo, hi) ==
    LET len == Len(es)
        cl(i) == LET j == IF i < 0 THEN i + len ELSE i
                 IN  IF j < 0 THEN 0 ELSE IF j > len THEN len ELSE j
    IN  SubSeq(es, cl(lo) + 1, cl(hi))

-----------------------------------------------------------------------------
(* Index read, index write and the index-taking array builtins.            *)

\* the value Python's container[j] yields for a list or a str
ItemAt(container, j) ==
    IF container.k = "str" THEN StrV(<<container.s[j + 1]>>) ELSE container.s[j + 1]

\* a faulty index read: the key is used as the host's zero-based index
EvalIndexAccessZeroBased(container, key) ==
    IF container.k \in {"list", "str"} THEN
        IF ~IsInt(key) THEN RuntimeErr(container)
        ELSE LET j == PySlot(Len(container.s), key.n)
             IN  IF j = -1 THEN RuntimeErr(container)
                 ELSE ValueIn(ItemAt(container, j), container)
    ELSE RuntimeErr(container)

\* Interpreter.eval, IndexAccessNode on a list or str
EvalIndexAccess(container, key) ==
    IF container.k \in {"list", "str"} THEN
        IF ~IsInt(key) THEN RuntimeErr(container)
        ELSE IF key.n < 0 THEN
            LET j == PySlot(Len(container.s), key.n)
            IN  IF j = -1 THEN RuntimeErr(container)
                ELSE ValueIn(ItemAt(container, j), container)
        ELSE
            LET zero_based_index == key.n - 1
            IN  IF zero_based_index < 0 THEN RuntimeErr(container)
                ELSE LET j == PySlot(Len(container.s), zero_based_index)
                     IN  IF j = -1 THEN RuntimeErr(container)
                         ELSE ValueIn(ItemAt(container, j), container)
    ELSE RuntimeErr(container)

\* Interpreter.eval, IndexAssignNode: the assignment to one key of a list
AssignItem(target, key, new_value) ==
    IF target.k = "list" THEN
        IF ~IsInt(key) THEN RuntimeErr(target)
        ELSE IF key.n < 0 THEN
            LET j == PySlot(Len(target.s), key.n)
            IN  IF j = -1 THEN RuntimeErr(target)
                ELSE ValueIn(new_value, [target EXCEPT !.s[j + 1] = new_value])
        ELSE
            LET zero_based_idx == key.n - 1
            IN  IF zero_based_idx < 0 THEN RuntimeErr(target)
                ELSE LET j == PySlot(Len(target.s), zero_based_idx)
                     IN  IF j = -1 THEN RuntimeErr(target)
                         ELSE ValueIn(new_value, [target EXCEPT !.s[j + 1] = new_value])
    ELSE RuntimeErr(target)

\* Interpreter._handle_array_functions, "insert"
ArrInsert(array, index, value) ==
    IF array.k # "list" THEN RuntimeErr(array)
    ELSE IF ~IsInt(index) THEN RuntimeErr(array)
    ELSE IF index.n < 0 THEN
        LET a2 == [array EXCEPT !.s = PyInsert(array.s, index.n, value)]
        IN  ValueIn(a2, a2)
    ELSE
        LET zero_based_index == index.n - 1
        IN  IF zero_based_index < 0 THEN RuntimeErr(array)
            ELSE LET a2 == [array EXCEPT !.s = PyInsert(array.s, zero_based_index, value)]
                 IN  ValueIn(a2, a2)

\* Interpreter._handle_array_functions, "remove"
ArrRemove(array, index) ==
    IF array.k # "list" THEN RuntimeErr(array)
    ELSE IF ~IsInt(index) THEN RuntimeErr(array)
    ELSE IF index.n < 0 THEN
        LET j == PySlot(Len(array.s), index.n)
        IN  IF j = -1 THEN RuntimeErr(array)
            ELSE LET a2 == [array EXCEPT !.s = PyDelete(array.s, j)] IN ValueIn(a2, a2)
    ELSE
        LET zero_based_index == index.n - 1
        IN  IF zero_based_index < 0 \/ zero_based_index >= Len(array.s)
            THEN RuntimeErr(array)
            ELSE LET a2 == [array EXCEPT !.s = PyDelete(array.s, zero_based_index)]
                 IN  ValueIn(a2, a2)

\* Interpreter._handle_array_functions, "slice" with an explicit end
ArrSlice(array, start, end) ==
    IF array.k # "list" THEN RuntimeErr(array)
    ELSE IF ~IsInt(start) \/ ~IsInt(end) THEN RuntimeErr(array)
    ELSE
        LET zero_start == IF start.n - 1 < 0 THEN 0 ELSE start.n - 1
            zero_end   == end.n - 1
        IN  ValueIn(ListV(PySlice(array.s, zero_start, zero_end + 1)), array)

-----------------------------------------------------------------------------
(* Host arithmetic (Python operators on the value kinds).  A float is the  *)
(* exact rational n/d with d > 0 in lowest terms.                          *)

FloatRaw(num, den) == V("float", num, den, <<>>)

Abs(x) == IF x < 0 THEN -x ELSE x

RECURSIVE GCD(_, _)
GCD(a, b) == IF b = 0 THEN a ELSE GCD(b, a % b)

\* the float num/den (den # 0) in lowest terms with a positive denominator
FloatV(num, den) ==
    LET g == GCD(Abs(num), Abs(den))
        sg == IF den < 0 THEN -1 ELSE 1
    IN  FloatRaw((sg * num) \div g, (sg * den) \div g)

IsNum(x) == x.k \in {"int", "bool", "float"}

\* Python's floor division and modulo of integers, b # 0
PyFloorDiv(a, b) == IF b > 0 THEN a \div b ELSE (-a) \div (-b)
PyIntMod(a, b)   == a - b * PyFloorDiv(a, b)

RECURSIVE IntPow(_, _)
IntPow(b, e) == IF e = 0 THEN 1 ELSE b * IntPow(b, e - 1)

\* a number as the host computes with it: int and bool as int, float as float
NumResult(l, r, num, den) ==
    IF l.k = "float" \/ r.k = "float" THEN Value(FloatV(num, den))
    ELSE Value(IntV(num \div den))

NumAdd(l, r) == NumResult(l, r, l.n * r.d + r.n * l.d, l.d * r.d)
NumSub(l, r) == NumResult(l, r, l.n * r.d - r.n * l.d, l.d * r.d)
NumMul(l, r) == NumResult(l, r, l.n * r.n, l.d * r.d)

\* l / r of two numbers, r # 0: always a float
NumTrueDiv(l, r) == Value(FloatV(l.n * r.d, l.d * r.n))

\* l % r of two numbers: ZeroDivisionError when r is zero
NumMod(l, r) ==
    IF r.n = 0 THEN HostErr("ZeroDivisionError", NoneV)
    ELSE IF l.k = "float" \/ r.k = "float" THEN
        \* l - r * floor(l / r), over the common denominator l.d * r.d
        LET a == l.n * r.d
            b == r.n * l.d
        IN  Value(FloatV(PyIntMod(a, b), l.d * r.d))
    ELSE Value(IntV(PyIntMod(l.n, r.n)))

\* l ** r of two numbers with an integral exponent (a non-integral float
\* exponent gives an irrational or complex float, whose value is not
\* computed: d = 0 marks it)
NumPow(l, r) ==
    IF r.d # 1 THEN
        IF l.n = 0 /\ r.n < 0 THEN HostErr("ZeroDivisionError", NoneV)
        ELSE Value(FloatRaw(0, 0))
    ELSE IF r.n >= 0 THEN
        NumResult(l, r, IntPow(l.n, r.n), IntPow(l.d, r.n))
    ELSE IF l.n = 0 THEN HostErr("ZeroDivisionError", NoneV)
    ELSE Value(FloatV(IntPow(l.d, -r.n), IntPow(l.n, -r.n)))

\* x == y of the host, for numbers across kinds and for equal kinds
RECURSIVE PyEq(_, _)
PyEq(l, r) ==
    IF IsNum(l) /\ IsNum(r) THEN l.n * r.d = r.n * l.d
    ELSE IF l.k # r.k THEN FALSE
    ELSE IF l.k \in {"str", "list", "dict"} THEN
        /\ Len(l.s) = Len(r.s)
        /\ \A i \in 1..Len(l.s) : PyEq(l.s[i], r.s[i])
    ELSE IF l.k = "set" THEN
        /\ \A i \in 1..Len(l.s) : \E j \in 1..Len(r.s) : PyEq(l.s[i], r.s[j])
        /\ \A j \in 1..Len(r.s) : \E i \in 1..Len(l.s) : PyEq(l.s[i], r.s[j])
    ELSE l = r

\* x < y of the host: "lt", "eq", "gt", or "TypeError" for kinds without order
RECURSIVE PyOrder(_, _)
PyOrder(l, r) ==
    IF IsNum(l) /\ IsNum(r) THEN
        IF l.n * r.d < r.n * l.d THEN "lt"
        ELSE IF l.n * r.d = r.n * l.d THEN "eq" ELSE "gt"
    ELSE IF l.k = r.k /\ l.k \in {"str", "list"} THEN
        LET m == IF Len(l.s) < Len(r.s) THEN Len(l.s) ELSE Len(r.s)
            diff == {i \in 1..m : ~PyEq(l.s[i], r.s[i])}
        IN  IF diff = {} THEN
                IF Len(l.s) < Len(r.s) THEN "lt"
                ELSE IF Len(l.s) = Len(r.s) THEN "eq" ELSE "gt"
            ELSE LET i == CHOOSE x \in diff : \A y \in diff : x <= y
                 IN  PyOrder(l.s[i], r.s[i])
    ELSE "TypeError"

\* set elements of l that are (not) in r
SetMinus(l, r) == SelectSeq(l.s, LAMBDA x : \A j \in 1..Len(r.s) : ~PyEq(x, r.s[j]))
IsSubset(l, r) == \A i \in 1..Len(l.s) : \E j \in 1..Len(r.s) : PyEq(l.s[i], r.s[j])

RECURSIVE Repeat(_, _)
Repeat(es, times) == IF times <= 0 THEN <<>> ELSE es \o Repeat(es, times - 1)

-----------------------------------------------------------------------------
(* Host text conversion: str(x), repr(x) and str % x.                      *)

\* the characters of a text given by its code points
Chars(codes) == [i \in 1..Len(codes) |-> IntV(codes[i])]

RECURSIVE Digits(_)
Digits(i) == IF i < 10 THEN <<48 + i>> ELSE Digits(i \div 10) \o <<48 + (i % 10)>>

\* str(i) of an integer
IntText(i) == IF i < 0 THEN Chars(<<45>> \o Digits(-i)) ELSE Chars(Digits(i))

RECURSIVE JoinText(_, _)
JoinText(parts, sep) ==
    IF parts = <<>> THEN <<>>
    ELSE IF Len(parts) = 1 THEN parts[1]
    ELSE parts[1] \o sep \o JoinText(Tail(parts), sep)

\* str(x) (quoted = FALSE) and repr(x) (quoted = TRUE), as characters
RECURSIVE PyText(_, _)
PyText(x, quoted) ==
    CASE x.k = "none"  -> Chars(<<78, 111, 110, 101>>)
      [] x.k = "bool"  -> IF x.n = 1 THEN Chars(<<84, 114, 117, 101>>)
                          ELSE Chars(<<70, 97, 108, 115, 101>>)
      [] x.k = "int"   -> IntText(x.n)
      [] x.k = "float" ->
            \* a float with an integral value prints as "i.0", a half as "i.5"
            IF x.d = 1 THEN
                (IF x.n < 0 THEN Chars(<<45>>) ELSE <<>>)
                    \o IntText(Abs(x.n)) \o Chars(<<46, 48>>)
            ELSE (IF x.n < 0 THEN Chars(<<45>>) ELSE <<>>)
                    \o IntText(((Abs(x.n) * 10) \div x.d) \div 10)
                    \o Chars(<<46>>) \o IntText(((Abs(x.n) * 10) \div x.d) % 10)
      [] x.k = "str"   -> IF quoted THEN Chars(<<39>>) \o x.s \o Chars(<<39>>) ELSE x.s
      [] x.k = "list"  ->
            Chars(<<91>>)
                \o JoinText([i \in 1..Len(x.s) |-> PyText(x.s[i], TRUE)], Chars(<<44, 32>>))
                \o Chars(<<93>>)
      [] x.k = "dict"  ->
            Chars(<<123>>)
                \o JoinText([i \in 1..(Len(x.s) \div 2) |->
                                PyText(x.s[2 * i - 1], TRUE) \o Chars(<<58, 32>>)
                                    \o PyText(x.s[2 * i], TRUE)], Chars(<<44, 32>>))
                \o Chars(<<125>>)
      [] x.k = "set"   ->
            IF x.s = <<>> THEN Chars(<<115, 101, 116, 40, 41>>)
            ELSE Chars(<<123>>)
                    \o JoinText([i \in 1..Len(x.s) |-> PyText(x.s[i], TRUE)], Chars(<<44, 32>>))
                    \o Chars(<<125>>)
      [] OTHER         ->
            \* PuffingFunction.__repr__ of the function named f
            Chars(<<60, 102, 117, 110, 99, 116, 105, 111, 110, 32, 102, 62>>)

PyStr(x) == PyText(x, FALSE)

\* the text of a %d conversion: the number truncated toward zero
FormatD(x) ==
    LET q == Abs(x.n) \div x.d
    IN  IntText(IF x.n < 0 THEN -q ELSE q)

\* fmt % arg for a format of literal characters, %d and %%; used counts the
\* conversions already done (arg is never a tuple: it is one argument).
RECURSIVE FormatFrom(_, _, _, _)
FormatFrom(fmt, arg, used, acc) ==
    IF fmt = <<>> THEN
        \* an unused argument is an error unless it is a mapping-like object
        IF used = 0 /\ arg.k \notin {"dict", "list"}
        THEN HostErr("TypeError", NoneV)     \* not all arguments converted
        ELSE Value(StrV(acc))
    ELSE IF fmt[1].n # 37 THEN FormatFrom(Tail(fmt), arg, used, acc \o <<fmt[1]>>)
    ELSE IF Len(fmt) = 1 THEN HostErr("ValueError", NoneV)   \* incomplete format
    ELSE IF fmt[2].n = 37 THEN FormatFrom(SubSeq(fmt, 3, Len(fmt)), arg, used, acc \o <<fmt[1]>>)
    ELSE IF fmt[2].n = 100 THEN
        IF used > 0 THEN HostErr("TypeError", NoneV)         \* not enough arguments
        ELSE IF ~IsNum(arg) THEN HostErr("TypeError", NoneV) \* a number is required
        ELSE FormatFrom(SubSeq(fmt, 3, Len(fmt)), arg, used + 1, acc \o FormatD(arg))
    ELSE HostErr("ValueError", NoneV)        \* unsupported format character

PyFormat(fmt, arg) == FormatFrom(fmt.s, arg, 0, <<>>)

-----------------------------------------------------------------------------
(* The host's operators on values, as the evaluator applies them.          *)

TypeErr == HostErr("TypeError", NoneV)

PyAdd(l, r) ==
    IF IsNum(l) /\ IsNum(r) THEN NumAdd(l, r)
    ELSE IF l.k = "str" /\ r.k = "str" THEN Value(StrV(l.s \o r.s))
    ELSE IF l.k = "list" /\ r.k = "list" THEN Value(ListV(l.s \o r.s))
    ELSE TypeErr

PySub(l, r) ==
    IF IsNum(l) /\ IsNum(r) THEN NumSub(l, r)
    ELSE IF l.k = "set" /\ r.k = "set" THEN Value(SetV(SetMinus(l, r)))
    ELSE TypeErr

PyMul(l, r) ==
    IF IsNum(l) /\ IsNum(r) THEN NumMul(l, r)
    ELSE IF l.k \in {"str", "list"} /\ IsInt(r) THEN Value([l EXCEPT !.s = Repeat(l.s, r.n)])
    ELSE IF IsInt(l) /\ r.k \in {"str", "list"} THEN Value([r EXCEPT !.s = Repeat(r.s, l.n)])
    ELSE TypeErr

PyTrueDiv(l, r) ==
    IF IsNum(l) /\ IsNum(r) THEN
        IF r.n = 0 THEN HostErr("ZeroDivisionError", NoneV) ELSE NumTrueDiv(l, r)
    ELSE TypeErr

PyMod(l, r) ==
    IF l.k = "str" THEN PyFormat(l, r)
    ELSE IF IsNum(l) /\ IsNum(r) THEN NumMod(l, r)
    ELSE TypeErr

PyPow(l, r) == IF IsNum(l) /\ IsNum(r) THEN NumPow(l, r) ELSE TypeErr

\* l < r, l > r, l <= r, l >= r
PyCompare(op, l, r) ==
    IF l.k = "set" /\ r.k = "set" THEN
        LET sub == IsSubset(l, r)
            sup == IsSubset(r, l)
        IN  Value(BoolV(CASE op = "LESS"          -> sub /\ ~sup
                          [] op = "GREATER"       -> sup /\ ~sub
                          [] op = "LESS_EQUAL"    -> sub
                          [] op = "GREATER_EQUAL" -> sup))
    ELSE
        LET o == PyOrder(l, r)
        IN  IF o = "TypeError" THEN TypeErr
            ELSE Value(BoolV(CASE op = "LESS"          -> o = "lt"
                               [] op = "GREATER"       -> o = "gt"
                               [] op = "LESS_EQUAL"    -> o \in {"lt", "eq"}
                               [] op = "GREATER_EQUAL" -> o \in {"gt", "eq"}))

\* -x
PyNeg(x) ==
    IF x.k = "float" THEN Value(FloatV(-x.n, x.d))
    ELSE IF IsInt(x) THEN Value(IntV(-x.n))
    ELSE TypeErr

\* Interpreter.is_truthy
is_truthy(value) ==
    IF value.k = "none" THEN FALSE
    ELSE IF value.k = "bool" THEN value.n = 1
    ELSE IF value.k \in {"int", "float"} THEN value.n # 0
    ELSE IF value.k = "str" THEN Len(value.s) > 0
    ELSE IF value.k \in {"list", "dict", "set"} THEN Len(value.s) > 0
    ELSE TRUE

\* Interpreter.eval_binary_op, once both operands are evaluated
eval_binary_op(op, left, right) ==
    CASE op = "PLUS" ->
            IF left.k = "str" \/ right.k = "str"
            THEN Value(StrV(PyStr(left) \o PyStr(right)))
            ELSE IF left.k = "list" /\ right.k = "list"
            THEN Value(ListV(left.s \o right.s))
            ELSE PyAdd(left, right)
      [] op = "MINUS"    -> PySub(left, right)
      [] op = "MULTIPLY" -> PyMul(left, right)
      [] op = "DIVIDE"   ->
            IF PyEq(right, IntV(0)) THEN RuntimeErr(NoneV)
            ELSE PyTrueDiv(left, right)
      [] op = "MODULO"   -> PyMod(left, right)
      [] op = "POWER"    -> PyPow(left, right)
      [] op = "EQUAL"     -> Value(BoolV(PyEq(left, right)))
      [] op = "NOT_EQUAL" -> Value(BoolV(~PyEq(left, right)))
      [] op \in {"LESS", "GREATER", "LESS_EQUAL", "GREATER_EQUAL"} ->
            PyCompare(op, left, right)
      [] op = "AND" -> Value(BoolV(is_truthy(left) /\ is_truthy(right)))
      [] op = "OR"  -> Value(BoolV(is_truthy(left) \/ is_truthy(right)))
      [] OTHER -> RuntimeErr(NoneV)

\* Interpreter.eval_unary_op, once the operand is evaluated
eval_unary_op(op, operand) ==
    CASE op = "MINUS" -> PyNeg(operand)
      [] op = "NOT"   -> Value(BoolV(~is_truthy(operand)))
      [] OTHER -> RuntimeErr(NoneV)

\* Interpreter.eval, CompoundAssignNode: the new value of the variable
compound_assign(op, current_value, compound_value) ==
    CASE op = "PLUS"     -> PyAdd(current_value, compound_value)
      [] op = "MINUS"    -> PySub(current_value, compound_value)
      [] op = "MULTIPLY" -> PyMul(current_value, compound_value)
      [] op = "DIVIDE"   ->
            IF PyEq(compound_value, IntV(0)) THEN RuntimeErr(NoneV)
            ELSE PyTrueDiv(current_value, compound_value)
      [] op = "MODULO"   -> PyMod(current_value, compound_value)
      [] op = "POWER"    -> PyPow(current_value, compound_value)
      [] OTHER -> RuntimeErr(NoneV)

-----------------------------------------------------------------------------
(* SpecIndex: the index operations applied to every small list / str and   *)
(* every index around its ends.                                            *)

MaxArrLen == 3

SeqsUpTo(S, n) == UNION {[1..m -> S] : m \in 0..n}

IndexLists == {ListV(es) : es \in SeqsUpTo({IntV(7), IntV(8)}, MaxArrLen)}
IndexStrs  == {StrV(cs) : cs \in SeqsUpTo({IntV(97), IntV(98)}, MaxArrLen)}
IndexKeys  == {IntV(i) : i \in -(MaxArrLen + 2)..(MaxArrLen + 2)}
                  \cup {BoolV(TRUE), StrV(<<IntV(97)>>)}

IndexCall(o, a, k, k2, v) == [op |-> o, a |-> a, k |-> k, k2 |-> k2, v |-> v]

IndexCalls ==
    {IndexCall("read", a, k, NoneV, NoneV) : a \in IndexLists \cup IndexStrs, k \in IndexKeys}
    \cup {IndexCall("assign", a, k, NoneV, IntV(9)) : a \in IndexLists \cup IndexStrs, k \in IndexKeys}
    \cup {IndexCall("insert", a, k, NoneV, IntV(9)) : a \in IndexLists, k \in IndexKeys}
    \cup {IndexCall("remove", a, k, NoneV, NoneV) : a \in IndexLists, k \in IndexKeys}
    \cup {IndexCall("slice", a, k, k2, NoneV) : a \in IndexLists, k \in IndexKeys, k2 \in IndexKeys}

InitIndex ==
    /\ call \in IndexCalls
    /\ result = Pending
    /\ LexerIdle /\ RunIdle

DoIndexAccess ==
    /\ call.op = "read" /\ result = Pending
    /\ result' = EvalIndexAccess(call.a, call.k)
    /\ UNCHANGED <<call, lexVars, runVars>>

DoIndexAssign ==
    /\ call.op = "assign" /\ result = Pending
    /\ result' = AssignItem(call.a, call.k, call.v)
    /\ UNCHANGED <<call, lexVars, runVars>>

DoArrInsert ==
    /\ call.op = "insert" /\ result = Pending
    /\ result' = ArrInsert(call.a, call.k, call.v)
    /\ UNCHANGED <<call, lexVars, runVars>>

DoArrRemove ==
    /\ call.op = "remove" /\ result = Pending
    /\ result' = ArrRemove(call.a, call.k)
    /\ UNCHANGED <<call, lexVars, runVars>>

DoArrSlice ==
    /\ call.op = "slice" /\ result = Pending
    /\ result' = ArrSlice(call.a, call.k, call.k2)
    /\ UNCHANGED <<call, lexVars, runVars>>

NextIndex == DoIndexAccess \/ DoIndexAssign \/ DoArrInsert \/ DoArrRemove \/ DoArrSlice

SpecIndex == InitIndex /\ [][NextIndex]_vars

\* C4: reading a[k] on a list or str of length n with an integer k yields the
\* element of slot k-1 for 1 <= k <= n, the element of slot n+k for
\* -n <= k <= -1, and raises a runtime error, yielding no value, for k = 0,
\* k > n and k < -n.
C4_IndexRead ==
    (call.op = "read" /\ result # Pending /\ call.k.k = "int") =>
        LET n == Len(call.a.s)
            k == call.k.n
        IN  /\ (1 <= k /\ k <= n) =>
                /\ result.cat = "value"
                /\ result.v = ItemAt(call.a, k - 1)
            /\ (-n <= k /\ k <= -1) =>
                /\ result.cat = "value"
                /\ result.v = ItemAt(call.a, n + k)
            /\ (k = 0 \/ k > n \/ k < -n) =>
                /\ result.cat = "runtime"
                /\ result.v = NoneV

\* a read of index -1 that yielded the last element of a full-length list
C4_Witness ==
    /\ call.op = "read" /\ call.a.k = "list" /\ call.k = IntV(-1)
    /\ Len(call.a.s) = MaxArrLen
    /\ result.cat = "value" /\ result.v = call.a.s[MaxArrLen]
    /\ call.a.s[1] # call.a.s[MaxArrLen]

\* the slot the index rule of the read gives index k on a sequence of length
\* n, or -1 where the rule gives none (k = 0, or k before the first element)
RuleSlot(k, n) ==
    IF k >= 1 THEN k - 1 ELSE IF k <= -1 /\ n + k >= 0 THEN n + k ELSE -1

\* C5: index assignment, insert, remove and both ends of slice map an index
\* to a slot by the rule of the index read (k >= 1 is slot k-1, k <= -1 is
\* slot n+k, k = 0 is an error) and none of them clamps or accepts an index
\* the rule rejects.
C5_UniformIndexRule ==
    (result # Pending /\ call.a.k = "list" /\ call.k.k = "int") =>
        LET n  == Len(call.a.s)
            es == call.a.s
            j  == RuleSlot(call.k.n, n)
        IN  /\ call.op = "assign" =>
                IF j \in 0..(n - 1)
                THEN result.cat = "value" /\ result.arr.s = [es EXCEPT ![j + 1] = call.v]
                ELSE result.cat = "runtime"
            /\ call.op = "insert" =>
                IF j \in 0..n
                THEN /\ result.cat = "value"
                     /\ result.arr.s = SubSeq(es, 1, j) \o <<call.v>> \o SubSeq(es, j + 1, n)
                ELSE result.cat = "runtime"
            /\ call.op = "remove" =>
                IF j \in 0..(n - 1)
                THEN /\ result.cat = "value"
                     /\ result.arr.s = SubSeq(es, 1, j) \o SubSeq(es, j + 2, n)
                ELSE result.cat = "runtime"
            /\ (call.op = "slice" /\ call.k2.k = "int") =>
                LET j2 == RuleSlot(call.k2.n, n)
                IN  IF j \in 0..(n - 1) /\ j2 \in 0..(n - 1)
                    THEN result.cat = "value" /\ result.v.s = SubSeq(es, j + 1, j2 + 1)
                    ELSE result.cat = "runtime"

-----------------------------------------------------------------------------
(* SpecArith: every binary operator, unary operator and compound           *)
(* assignment applied to every pair of small values of every kind.         *)

MaxNum == 2

ArithVals ==
    {NoneV, BoolV(FALSE), BoolV(TRUE)}
    \cup {IntV(i) : i \in -MaxNum..MaxNum}
    \cup {FloatV(0, 1), FloatV(-MaxNum, 1), FloatV(1, 2)}
    \cup {StrV(<<>>), StrV(Chars(<<97>>)), StrV(Chars(<<37, 100>>))}
    \cup {ListV(<<>>), ListV(<<IntV(1)>>), ListV(<<StrV(Chars(<<97>>))>>)}
    \cup {DictV(<<>>), SetV(<<>>), SetV(<<IntV(1)>>), FunV(0)}

BinaryOps ==
    {"PLUS", "MINUS", "MULTIPLY", "DIVIDE", "MODULO", "POWER", "EQUAL", "NOT_EQUAL",
     "LESS", "GREATER", "LESS_EQUAL", "GREATER_EQUAL", "AND", "OR"}
UnaryOps    == {"MINUS", "NOT"}
CompoundOps == {"PLUS", "MINUS", "MULTIPLY", "DIVIDE", "MODULO", "POWER"}

ArithCall(nd, o, l, r) == [node |-> nd, op |-> o, left |-> l, right |-> r]

ArithCalls ==
    {ArithCall("binary", o, l, r) : o \in BinaryOps, l \in ArithVals, r \in ArithVals}
    \cup {ArithCall("unary", o, NoneV, r) : o \in UnaryOps, r \in ArithVals}
    \cup {ArithCall("compound", o, l, r) : o \in CompoundOps, l \in ArithVals, r \in ArithVals}

InitArith ==
    /\ call \in ArithCalls
    /\ result = Pending
    /\ LexerIdle /\ RunIdle

DoBinaryOp ==
    /\ call.node = "binary" /\ result = Pending
    /\ result' = eval_binary_op(call.op, call.left, call.right)
    /\ UNCHANGED <<call, lexVars, runVars>>

DoUnaryOp ==
    /\ call.node = "unary" /\ result = Pending
    /\ result' = eval_unary_op(call.op, call.right)
    /\ UNCHANGED <<call, lexVars, runVars>>

DoCompoundAssign ==
    /\ call.node = "compound" /\ result = Pending
    /\ result' = compound_assign(call.op, call.left, call.right)
    /\ UNCHANGED <<call, lexVars, runVars>>

NextArith == DoBinaryOp \/ DoUnaryOp \/ DoCompoundAssign

SpecArith == InitArith /\ [][NextArith]_vars

\* C6: a / b and a % b of numbers with b zero, as a binary expression or as
\* a compound assignment, always fail with an error of the runtime category:
\* they yield no value and raise no exception outside that category.
C6_ZeroDivisorIsRuntimeError ==
    (/\ result # Pending
     /\ call.node \in {"binary", "compound"}
     /\ call.op \in {"DIVIDE", "MODULO"}
     /\ IsNum(call.left) /\ call.right.k \in {"int", "float"} /\ call.right.n = 0)
        => result.cat = "runtime"

ArithOrderOps ==
    {"PLUS", "MINUS", "MULTIPLY", "DIVIDE", "MODULO", "POWER",
     "LESS", "GREATER", "LESS_EQUAL", "GREATER_EQUAL"}

KindOf(x) == IF IsNum(x) THEN "number" ELSE x.k

\* C9: every failure of an arithmetic operator or an ordering comparison
\* applied to operands of incompatible kinds (two different kinds, or a
\* unary minus on a non-number) is an error of the runtime category, never
\* an uncategorised exception.
C9_KindFailureIsRuntimeError ==
    (/\ result.cat \notin {"pending", "value"}
     /\ \/ /\ call.node = "binary" /\ call.op \in ArithOrderOps
           /\ KindOf(call.left) # KindOf(call.right)
        \/ /\ call.node = "unary" /\ call.op = "MINUS"
           /\ ~IsNum(call.right))
        => result.cat = "runtime"

-----------------------------------------------------------------------------
(* The lexer (lexer.py).  A source text is a sequence of character codes;  *)
(* the Lexer object is the record [text, pos, line, column] and            *)
(* current_char is derived from text and pos.  NoChar stands for None.     *)

NoChar == 0 - 1
Newline == 10
Tab == 9
Quote == 34
Backslash == 92
Question == 63
Dash == 45
Dot == 46
Underscore == 95

IsSpace(c) == c \in (9..13) \cup (28..32)
IsDigit(c) == c \in 48..57
IsAlpha(c) == c \in (65..90) \cup (97..122)
IsAlnum(c) == IsAlpha(c) \/ IsDigit(c)

LexerOf(text) == [text |-> text, pos |-> 0, line |-> 1, column |-> 1]

\* {e : x \in {v}} holds the one value of e with x bound to the value of v:
\* the way the results of the lexing and parsing methods are bound to local
\* variables
Only(S) == CHOOSE x \in S : TRUE

CharAt(text, p) == IF p < Len(text) THEN text[p + 1] ELSE NoChar
current_char(lx) == CharAt(lx.text, lx.pos)
peek(lx) == CharAt(lx.text, lx.pos + 1)

advance(lx) ==
    [lx EXCEPT !.line = IF current_char(lx) = Newline THEN @ + 1 ELSE @,
               !.column = IF current_char(lx) = Newline THEN 1 ELSE @ + 1,
               !.pos = @ + 1]

\* a skip_whitespace that consumes nothing
skip_no_whitespace(lx) == lx

RECURSIVE skip_whitespace(_)
skip_whitespace(lx) ==
    IF current_char(lx) # NoChar /\ IsSpace(current_char(lx))
    THEN Only({skip_whitespace(next) : next \in {advance(lx)}})
    ELSE lx

RECURSIVE SkipToLineEnd(_)
SkipToLineEnd(lx) ==
    IF current_char(lx) # NoChar /\ current_char(lx) # Newline
    THEN Only({SkipToLineEnd(next) : next \in {advance(lx)}})
    ELSE lx

skip_single_line_comment(lx) ==
    Only({IF current_char(atEnd) = Newline THEN advance(atEnd) ELSE atEnd
             : atEnd \in {SkipToLineEnd(advance(lx))}})

RECURSIVE SkipToCommentEnd(_)
SkipToCommentEnd(lx) ==
    IF current_char(lx) = NoChar THEN lx
    ELSE IF current_char(lx) = Dash /\ peek(lx) = Question
         THEN advance(advance(lx))
         ELSE Only({SkipToCommentEnd(next) : next \in {advance(lx)}})

skip_block_comment(lx) == SkipToCommentEnd(advance(advance(lx)))

Token(type, value) == [type |-> type, value |-> value]

\* The loops of number / identifier: the characters taken and the lexer after.
RECURSIVE TakeWhile(_, _, _)
TakeWhile(lx, acc, alnum) ==
    Only({IF c # NoChar /\ (IF alnum THEN IsAlnum(c) \/ c = Underscore ELSE IsDigit(c))
          THEN Only({TakeWhile(next, Append(acc, c), alnum) : next \in {advance(lx)}})
          ELSE [lx |-> lx, taken |-> acc] : c \in {current_char(lx)}})

RECURSIVE DigitsValue(_)
DigitsValue(ds) ==
    IF ds = <<>> THEN 0
    ELSE DigitsValue(SubSeq(ds, 1, Len(ds) - 1)) * 10 + (ds[Len(ds)] - 48)

\* number(): the token value is <<numerator, denominator>> of int(result) or
\* float(result).
number(lx) ==
    Only({LET c == current_char(whole.lx)
              p == peek(whole.lx)
          IN  IF c = Dot /\ p # NoChar /\ IsDigit(p)
              THEN Only({LET f == FloatV(DigitsValue(whole.taken \o frac.taken),
                                         IntPow(10, Len(frac.taken)))
                         IN  [lx |-> frac.lx, token |-> Token("NUMBER", <<f.n, f.d>>)]
                            : frac \in {TakeWhile(advance(whole.lx), <<>>, FALSE)}})
              ELSE [lx |-> whole.lx, token |-> Token("NUMBER", <<DigitsValue(whole.taken), 1>>)]
                 : whole \in {TakeWhile(lx, <<>>, FALSE)}})

Escape(c) ==
    IF c = 110 THEN Newline
    ELSE IF c = 116 THEN Tab
    ELSE c

\* The while loop of string(): after a backslash the next character is
\* appended to result; at the end of the text that character is None and
\* `result += None` raises the host's TypeError.
RECURSIVE StringBody(_, _)
StringBody(lx, acc) ==
    Only({IF c = NoChar \/ c = Quote THEN [lx |-> lx, result |-> acc, exc |-> ""]
          ELSE IF c = Backslash
               THEN Only({IF current_char(esc) = NoChar
                          THEN [lx |-> esc, result |-> acc, exc |-> "TypeError"]
                          ELSE Only({StringBody(next, Append(acc, Escape(current_char(esc))))
                                        : next \in {advance(esc)}})
                             : esc \in {advance(lx)}})
               ELSE Only({StringBody(next, Append(acc, c)) : next \in {advance(lx)}})
             : c \in {current_char(lx)}})

string(lx) ==
    Only({IF body.exc # "" THEN [lx |-> body.lx, token |-> Token("", <<>>), exc |-> body.exc]
          ELSE IF current_char(body.lx) = NoChar
               THEN [lx |-> body.lx, token |-> Token("", <<>>), exc |-> "LexerError"]
               ELSE [lx |-> advance(body.lx), token |-> Token("STRING", body.result),
                     exc |-> ""]
             : body \in {StringBody(advance(lx), <<>>)}})

keywords ==
    {
     <<<<108, 101, 116>>, "LET">>,
     <<<<108, 111, 99, 107>>, "LOCK">>,
     <<<<97, 115>>, "AS">>,
     <<<<105, 102>>, "IF">>,
     <<<<101, 108, 105, 102>>, "ELIF">>,
     <<<<101, 108, 115, 101>>, "ELSE">>,
     <<<<112, 114, 105, 110, 116>>, "PRINT">>,
     <<<<105, 110, 112, 117, 116>>, "INPUT">>,
     <<<<108, 105, 98>>, "LIB">>,
     <<<<102, 111, 114>>, "FOR">>,
     <<<<105, 110>>, "IN">>,
     <<<<119, 104, 105, 108, 101>>, "WHILE">>,
     <<<<100, 111>>, "DO">>,
     <<<<98, 114, 101, 97, 107>>, "BREAK">>,
     <<<<99, 111, 110, 116, 105, 110, 117, 101>>, "CONTINUE">>,
     <<<<105, 110, 116>>, "INT">>,
     <<<<102, 108, 111, 97, 116>>, "FLOAT">>,
     <<<<115, 116, 114>>, "STR">>,
     <<<<98, 111, 111, 108>>, "BOOL">>,
     <<<<116, 114, 117, 101>>, "TRUE">>,
     <<<<102, 97, 108, 115, 101>>, "FALSE">>,
     <<<<97, 110, 100>>, "AND">>,
     <<<<111, 114>>, "OR">>,
     <<<<102, 117, 110>>, "FUN">>,
     <<<<108, 97, 109, 98>>, "LAMB">>,
     <<<<114, 101, 116, 117, 114, 110>>, "RETURN">>
    }

identifier(lx) ==
    Only({LET hit == {kw \in keywords : kw[1] = word.taken}
          IN  [lx |-> word.lx,
               token |-> IF hit # {} THEN Token((CHOOSE kw \in hit : TRUE)[2], <<>>)
                         ELSE Token("IDENT", word.taken)]
             : word \in {TakeWhile(lx, <<>>, TRUE)}})

TwoCharOperators ==
    {
     <<42, 42, "POWER">>,
     <<43, 43, "INCREMENT">>,
     <<45, 45, "DECREMENT">>,
     <<60, 61, "LESS_EQUAL">>,
     <<62, 61, "GREATER_EQUAL">>,
     <<33, 61, "NOT_EQUAL">>,
     <<61, 62, "ARROW">>
    }

OneCharOperators ==
    {
     <<43, "PLUS">>,
     <<45, "MINUS">>,
     <<42, "MULTIPLY">>,
     <<47, "DIVIDE">>,
     <<37, "MODULO">>,
     <<61, "EQUAL">>,
     <<60, "LESS">>,
     <<62, "GREATER">>,
     <<33, "NOT">>,
     <<59, "SEMICOLON">>,
     <<40, "LPAREN">>,
     <<41, "RPAREN">>,
     <<123, "LBRACE">>,
     <<125, "RBRACE">>,
     <<91, "LBRACKET">>,
     <<93, "RBRACKET">>,
     <<46, "DOT">>,
     <<36, "DOLLAR">>,
     <<44, "COMMA">>,
     <<58, "COLON">>,
     <<35, "HASH">>
    }

TwoCharAt(lx) == {o \in TwoCharOperators : o[1] = current_char(lx) /\ o[2] = peek(lx)}
OneCharAt(lx) == {o \in OneCharOperators : o[1] = current_char(lx)}

\* tokenize(): one action per branch of the loop body, tried in the order of
\* the source, and one for leaving the loop.
Tokenizing == lexed.status = "running" /\ current_char(lexer) # NoChar

AtSpace == IsSpace(current_char(lexer))
AtComment == current_char(lexer) = Question
AtDigit == IsDigit(current_char(lexer))
AtQuote == current_char(lexer) = Quote
AtWord == IsAlpha(current_char(lexer)) \/ current_char(lexer) = Underscore
AtSymbol == ~AtSpace /\ ~AtComment /\ ~AtDigit /\ ~AtQuote /\ ~AtWord

Emit(token, branch) ==
    lexed' = [lexed EXCEPT !.tokens = Append(@, token), !.last = branch]

Fail(exc, branch) ==
    lexed' = [lexed EXCEPT !.tokens = <<>>, !.status = exc, !.last = branch]

LexWhitespace ==
    /\ Tokenizing /\ AtSpace
    /\ lexer' = skip_whitespace(lexer)
    /\ lexed' = [lexed EXCEPT !.last = "whitespace"]
    /\ UNCHANGED <<evalVars, runVars>>

LexComment ==
    /\ Tokenizing /\ AtComment
    /\ lexer' = IF peek(lexer) = Dash THEN skip_block_comment(lexer)
                 ELSE skip_single_line_comment(lexer)
    /\ lexed' = [lexed EXCEPT !.last = IF peek(lexer) = Dash THEN "block_comment"
                                        ELSE "line_comment"]
    /\ UNCHANGED <<evalVars, runVars>>

LexNumber ==
    /\ Tokenizing /\ AtDigit
    /\ \E lexed_number \in {number(lexer)} :
          /\ lexer' = lexed_number.lx
          /\ Emit(lexed_number.token, "number")
    /\ UNCHANGED <<evalVars, runVars>>

LexString ==
    /\ Tokenizing /\ AtQuote
    /\ \E lexed_string \in {string(lexer)} :
          /\ lexer' = lexed_string.lx
          /\ IF lexed_string.exc = "" THEN Emit(lexed_string.token, "string")
             ELSE Fail(lexed_string.exc, "string")
    /\ UNCHANGED <<evalVars, runVars>>

LexIdentifier ==
    /\ Tokenizing /\ AtWord
    /\ \E word \in {identifier(lexer)} :
          /\ lexer' = word.lx
          /\ Emit(word.token, "identifier")
    /\ UNCHANGED <<evalVars, runVars>>

LexTwoCharOperator ==
    /\ Tokenizing /\ AtSymbol /\ TwoCharAt(lexer) # {}
    /\ lexer' = advance(advance(lexer))
    /\ Emit(Token((CHOOSE o \in TwoCharAt(lexer) : TRUE)[3], <<>>), "operator")
    /\ UNCHANGED <<evalVars, runVars>>

LexOneCharOperator ==
    /\ Tokenizing /\ AtSymbol /\ TwoCharAt(lexer) = {} /\ OneCharAt(lexer) # {}
    /\ lexer' = advance(lexer)
    /\ Emit(Token((CHOOSE o \in OneCharAt(lexer) : TRUE)[2], <<>>), "operator")
    /\ UNCHANGED <<evalVars, runVars>>

LexUnknownCharacter ==
    /\ Tokenizing /\ AtSymbol /\ TwoCharAt(lexer) = {} /\ OneCharAt(lexer) = {}
    /\ Fail("LexerError", "unknown")
    /\ UNCHANGED <<lexer, evalVars, runVars>>

LexEnd ==
    /\ lexed.status = "running" /\ current_char(lexer) = NoChar
    /\ lexed' = [lexed EXCEPT !.tokens = Append(@, Token("EOF", <<>>)),
                               !.status = "done", !.last = "eof"]
    /\ UNCHANGED <<lexer, evalVars, runVars>>

\* Source texts: every text up to MaxTextLen over an alphabet that reaches
\* every branch of tokenize: " \ n 1 ? - newline @
MaxTextLen == 4
LexAlphabet == {Quote, Backslash, 110, 49, Question, Dash, Newline, 64}
LexTexts == UNION {[1..n -> LexAlphabet] : n \in 0..MaxTextLen}

InitLexer ==
    /\ \E text \in LexTexts : lexer = LexerOf(text)
    /\ lexed = [tokens |-> <<>>, status |-> "running", last |-> ""]
    /\ EvalIdle /\ RunIdle

NextLexer ==
    \/ LexWhitespace \/ LexComment \/ LexNumber \/ LexString \/ LexIdentifier
    \/ LexTwoCharOperator \/ LexOneCharOperator \/ LexUnknownCharacter \/ LexEnd

SpecLexer == InitLexer /\ [][NextLexer]_vars

\* C10: whenever a double-quoted string literal is opened and the end of the
\* text is reached before its closing quote (tokenize ends inside string();
\* in particular the text opens a string with its first character and holds
\* no other quote), tokenize ends with a LexerError.
OpensStringNeverClosed(text) ==
    /\ Len(text) > 0 /\ text[1] = Quote
    /\ \A i \in 2..Len(text) : text[i] # Quote

C10_UnterminatedStringIsLexerError ==
    (/\ lexed.status \notin {"idle", "running"}
     /\ \/ lexed.last = "string"
        \/ OpensStringNeverClosed(lexer.text))
        => lexed.status = "LexerError"

\* C11: whenever the text holds a block-comment open marker ?- and no close
\* marker -? begins after the first character of that open marker, tokenize
\* ends with a LexerError and returns no token sequence.
OpensCommentNeverClosed(text) ==
    \E i \in 1..(Len(text) - 1) :
        /\ text[i] = Question /\ text[i + 1] = Dash
        /\ \A j \in (i + 1)..(Len(text) - 1) : ~(text[j] = Dash /\ text[j + 1] = Question)

C11_UnterminatedCommentIsLexerError ==
    (/\ lexed.status \notin {"idle", "running"}
     /\ OpensCommentNeverClosed(lexer.text))
        => lexed.status = "LexerError"

-----------------------------------------------------------------------------
(* The expression parser (Parser.expr .. Parser.primary): recursive descent *)
(* over the token sequence of the lexer, which always ends with EOF.  A     *)
(* parse yields the node and the position of the next token, or the        *)
(* ParserError.  The tokens are operands (IDENT, NUMBER), operators and     *)
(* EOF; the branches of call, postfix and primary for brackets, literals    *)
(* of other kinds, lambdas and input are not entered by these tokens.       *)

Node(kind, op, value, kids) == [kind |-> kind, op |-> op, value |-> value, kids |-> kids]
NumberNode(value) == Node("Number", "", value, <<>>)
VarAccessNode(name) == Node("VarAccess", "", name, <<>>)
BinaryOpNode(left, op, right) == Node("BinaryOp", op, <<>>, <<left, right>>)
UnaryOpNode(op, operand) == Node("UnaryOp", op, <<>>, <<operand>>)

Parsed(node, pos) == [ok |-> TRUE, node |-> node, pos |-> pos]
ParserError == [ok |-> FALSE, node |-> Node("", "", <<>>, <<>>), pos |-> 0]

\* self.current_token after pos - 1 calls of Parser.advance: advance leaves
\* the last token current once the position passes the end
current_token(tokens, pos) == tokens[IF pos < Len(tokens) THEN pos ELSE Len(tokens)]

primary(tokens, pos) ==
    LET token == current_token(tokens, pos)
    IN  CASE token.type = "NUMBER" -> Parsed(NumberNode(token.value), pos + 1)
          [] token.type = "IDENT"  -> Parsed(VarAccessNode(token.value), pos + 1)
          [] OTHER -> ParserError

\* Parser.postfix and Parser.call: their loops run on LBRACKET, LPAREN and DOT
postfix(tokens, pos) == primary(tokens, pos)

RECURSIVE unary(_, _)
unary(tokens, pos) ==
    IF current_token(tokens, pos).type \in {"MINUS", "NOT"}
    THEN Only({IF operand.ok
               THEN Parsed(UnaryOpNode(current_token(tokens, pos).type, operand.node),
                           operand.pos)
               ELSE ParserError
               : operand \in {unary(tokens, pos + 1)}})
    ELSE postfix(tokens, pos)

RECURSIVE power(_, _)
power(tokens, pos) ==
    Only({IF left.ok /\ current_token(tokens, left.pos).type = "POWER"
          THEN Only({IF right.ok
                     THEN Parsed(BinaryOpNode(left.node, "POWER", right.node), right.pos)
                     ELSE ParserError
                     : right \in {power(tokens, left.pos + 1)}})
          ELSE left
          : left \in {unary(tokens, pos)}})

\* the while loop of term: left = BinaryOpNode(left, op, right)
RECURSIVE TermLoop(_, _)
TermLoop(tokens, left) ==
    IF left.ok /\ current_token(tokens, left.pos).type \in {"MULTIPLY", "DIVIDE", "MODULO"}
    THEN Only({IF right.ok
               THEN TermLoop(tokens, Parsed(BinaryOpNode(left.node, current_token(tokens, left.pos).type, right.node), right.pos))
               ELSE ParserError
               : right \in {power(tokens, left.pos + 1)}})
    ELSE left

term(tokens, pos) == Only({TermLoop(tokens, left) : left \in {power(tokens, pos)}})

RECURSIVE ArithLoop(_, _)
ArithLoop(tokens, left) ==
    IF left.ok /\ current_token(tokens, left.pos).type \in {"PLUS", "MINUS"}
    THEN Only({IF right.ok
               THEN ArithLoop(tokens, Parsed(BinaryOpNode(left.node, current_token(tokens, left.pos).type, right.node), right.pos))
               ELSE ParserError
               : right \in {term(tokens, left.pos + 1)}})
    ELSE left

\* additive operators grouped to the right: x - y - 2 as x - (y - 2)
RECURSIVE arith_expr_right(_, _)
arith_expr_right(tokens, pos) ==
    Only({IF left.ok /\ current_token(tokens, left.pos).type \in {"PLUS", "MINUS"}
          THEN Only({IF right.ok
                     THEN Parsed(BinaryOpNode(left.node, current_token(tokens, left.pos).type,
                                              right.node), right.pos)
                     ELSE ParserError
                     : right \in {arith_expr_right(tokens, left.pos + 1)}})
          ELSE left
          : left \in {term(tokens, pos)}})

arith_expr(tokens, pos) == Only({ArithLoop(tokens, left) : left \in {term(tokens, pos)}})

RECURSIVE ComparisonLoop(_, _)
ComparisonLoop(tokens, left) ==
    IF left.ok /\ current_token(tokens, left.pos).type \in
          {"EQUAL", "NOT_EQUAL", "LESS", "GREATER", "LESS_EQUAL", "GREATER_EQUAL"}
    THEN Only({IF right.ok
               THEN ComparisonLoop(tokens, Parsed(BinaryOpNode(left.node, current_token(tokens, left.pos).type, right.node), right.pos))
               ELSE ParserError
               : right \in {arith_expr(tokens, left.pos + 1)}})
    ELSE left

comparison(tokens, pos) ==
    Only({ComparisonLoop(tokens, left) : left \in {arith_expr(tokens, pos)}})

RECURSIVE AndLoop(_, _)
AndLoop(tokens, left) ==
    IF left.ok /\ current_token(tokens, left.pos).type = "AND"
    THEN Only({IF right.ok
               THEN AndLoop(tokens, Parsed(BinaryOpNode(left.node, "AND", right.node), right.pos))
               ELSE ParserError
               : right \in {comparison(tokens, left.pos + 1)}})
    ELSE left

and_expr(tokens, pos) == Only({AndLoop(tokens, left) : left \in {comparison(tokens, pos)}})

RECURSIVE OrLoop(_, _)
OrLoop(tokens, left) ==
    IF left.ok /\ current_token(tokens, left.pos).type = "OR"
    THEN Only({IF right.ok
               THEN OrLoop(tokens, Parsed(BinaryOpNode(left.node, "OR", right.node), right.pos))
               ELSE ParserError
               : right \in {and_expr(tokens, left.pos + 1)}})
    ELSE left

or_expr(tokens, pos) == Only({OrLoop(tokens, left) : left \in {and_expr(tokens, pos)}})

expr(tokens, pos) == or_expr(tokens, pos)

\* Interpreter.eval on the nodes of an expression: both operands of a binary
\* operation are evaluated, the left one first, before the operator is applied
RECURSIVE eval(_, _)
eval(node, env) ==
    CASE node.kind = "Number" ->
            Value(IF node.value[2] = 1 THEN IntV(node.value[1])
                  ELSE FloatV(node.value[1], node.value[2]))
      [] node.kind = "VarAccess" ->
            IF node.value \in DOMAIN env THEN Value(env[node.value]) ELSE RuntimeErr(NoneV)
      [] node.kind = "BinaryOp" ->
            LET left == eval(node.kids[1], env)
            IN  IF left.cat # "value" THEN left
                ELSE LET right == eval(node.kids[2], env)
                     IN  IF right.cat # "value" THEN right
                         ELSE eval_binary_op(node.op, left.v, right.v)
      [] node.kind = "UnaryOp" ->
            LET operand == eval(node.kids[1], env)
            IN  IF operand.cat # "value" THEN operand
                ELSE eval_unary_op(node.op, operand.v)

\* SpecParse: every token sequence of at most MaxTokens tokens over two names,
\* a number and the operators of the ladder is parsed as an expression, and a
\* parse that consumed all tokens is evaluated with x = 5 and y = 10.  Powers
\* are parsed but not evaluated: 5 ** 10 ** 10 is beyond the model's integers.
MaxTokens == 5
NameX == <<120>>
NameY == <<121>>
ExprOperators == {"OR", "AND", "LESS", "PLUS", "MINUS", "MULTIPLY", "POWER"}
ExprTokens ==
    {Token("IDENT", NameX), Token("IDENT", NameY), Token("NUMBER", <<2, 1>>)}
        \cup {Token(op, <<>>) : op \in ExprOperators}
ExprEnv == [name \in {NameX, NameY} |-> IF name = NameX THEN IntV(5) ELSE IntV(10)]

InitParse ==
    /\ \E n \in 0..MaxTokens : \E tokens \in [1..n -> ExprTokens] :
          call = [op |-> "expr", tokens |-> tokens \o <<Token("EOF", <<>>)>>]
    /\ result = Pending
    /\ LexerIdle /\ RunIdle

DoExpr ==
    /\ call.op = "expr" /\ result = Pending
    /\ result' = [cat |-> "parsed", parse |-> expr(call.tokens, 1), out |-> Pending]
    /\ UNCHANGED <<call, lexVars, runVars>>

DoEval ==
    /\ call.op = "expr" /\ result.cat = "parsed"
    /\ result.parse.ok /\ result.parse.pos = Len(call.tokens)
    /\ \A i \in 1..Len(call.tokens) : call.tokens[i].type # "POWER"
    /\ result' = [result EXCEPT !.cat = "evaluated", !.out = eval(result.parse.node, ExprEnv)]
    /\ UNCHANGED <<call, lexVars, runVars>>

NextParse == DoExpr \/ DoEval

SpecParse == InitParse /\ [][NextParse]_vars

\* the rung of a binary operator on the ladder
Rung(op) ==
    CASE op = "OR" -> 1
      [] op = "AND" -> 2
      [] op \in {"EQUAL", "NOT_EQUAL", "LESS", "GREATER", "LESS_EQUAL", "GREATER_EQUAL"} -> 3
      [] op \in {"PLUS", "MINUS"} -> 4
      [] op \in {"MULTIPLY", "DIVIDE", "MODULO"} -> 5
      [] op = "POWER" -> 6

IsOperand(token) == token.type \in {"IDENT", "NUMBER"}
Leaf(token) ==
    IF token.type = "NUMBER" THEN NumberNode(token.value) ELSE VarAccessNode(token.value)
TypesOf(tokens) == [i \in 1..Len(tokens) |-> tokens[i].type]

\* C12: (1) tokens  l op1 m op2 r  parse to  l op1 (m op2 r)  when op2 is on a
\* higher rung than op1 or both are **, and to  (l op1 m) op2 r  otherwise
\* (op1 higher, or both on one rung of or, and, comparison, additive,
\* multiplicative); (2)  - l op r  parses to  (- l) op r  for every binary
\* operator, ** included; (3)  x + y * 2  evaluates to 25 with x = 5, y = 10.
C12_OperatorLadder ==
    (call.op = "expr" /\ result.cat \in {"parsed", "evaluated"}) =>
        LET t == call.tokens
            n == Len(t) - 1
            got == result.parse
        IN  /\ (/\ n = 5 /\ IsOperand(t[1]) /\ IsOperand(t[3]) /\ IsOperand(t[5])
                /\ t[2].type \in ExprOperators /\ t[4].type \in ExprOperators)
                  => got = Parsed(
                        IF Rung(t[2].type) < Rung(t[4].type)
                           \/ (t[2].type = "POWER" /\ t[4].type = "POWER")
                        THEN BinaryOpNode(Leaf(t[1]), t[2].type,
                                          BinaryOpNode(Leaf(t[3]), t[4].type, Leaf(t[5])))
                        ELSE BinaryOpNode(BinaryOpNode(Leaf(t[1]), t[2].type, Leaf(t[3])),
                                          t[4].type, Leaf(t[5])),
                        6)
            /\ (/\ n = 4 /\ t[1].type = "MINUS" /\ IsOperand(t[2]) /\ IsOperand(t[4])
                /\ t[3].type \in ExprOperators)
                  => got = Parsed(BinaryOpNode(UnaryOpNode("MINUS", Leaf(t[2])), t[3].type,
                                               Leaf(t[4])), 5)
            /\ (/\ result.cat = "evaluated"
                /\ TypesOf(t) = <<"IDENT", "PLUS", "IDENT", "MULTIPLY", "NUMBER", "EOF">>
                /\ t[1].value = NameX /\ t[3].value = NameY)
                  => result.out = Value(IntV(25))

\* x + y * 2 has been parsed and evaluated
C12_Witness ==
    /\ call.op = "expr" /\ result.cat = "evaluated"
    /\ TypesOf(call.tokens) = <<"IDENT", "PLUS", "IDENT", "MULTIPLY", "NUMBER", "EOF">>
    /\ call.tokens[1].value = NameX /\ call.tokens[3].value = NameY
    /\ result.out = Value(IntV(25))

-----------------------------------------------------------------------------
(* The interpreter as a machine.  A program is not fixed in advance: each  *)
(* step evaluates one statement that a program could hold at the current   *)
(* point (at top level, in the body of the innermost call, or in the body  *)
(* of the innermost loop).  The stack holds what the host's call stack     *)
(* holds: for a call the saved_vars of PuffingFunction.call, for a `for`   *)
(* loop its var_name / had_var / old_var and the values still to come.     *)

MaxSteps == 5
RecursionLimit == 2

Frame(kind, saved, pre, pre_heap, var, had_var, old_var, items) ==
    [kind |-> kind, saved |-> saved, pre |-> pre, pre_heap |-> pre_heap, var |-> var,
     had_var |-> had_var, old_var |-> old_var, items |-> items, callee |-> Unbound]

\* pre and pre_heap are the mapping and the containers as they were when the
\* call or the for loop was evaluated; no code keeps them and only properties
\* read them.
CallFrame(saved, pre, pre_heap) ==
    Frame("call", saved, pre, pre_heap, "", FALSE, Unbound, <<>>)
ForFrame(var, had_var, old_var, items, pre) ==
    Frame("for", EmptyMapping, pre, EmptyHeap, var, had_var, old_var, items)
WhileFrame(kind) ==
    Frame(kind, EmptyMapping, EmptyMapping, EmptyHeap, "", FALSE, Unbound, <<>>)

Event(kind, name, how, pre, flag) ==
    [kind |-> kind, name |-> name, how |-> how, pre |-> pre, flag |-> flag,
     touched |-> FALSE, args |-> <<>>]

\* what a call that ends observed: how it ended, the caller's mapping before
\* it, whether the body changed the mapping (flag) and whether it changed a
\* container the caller had bound (touched)
Returned(how, frame) ==
    [Event("returned", "", how, frame.pre, variables # frame.pre) EXCEPT
        !.touched = \E n \in Names : /\ frame.pre[n].k = "ref"
                                     /\ heap[frame.pre[n].n] # frame.pre_heap[frame.pre[n].n]]

Bind(mapping, name, value) == [mapping EXCEPT ![name] = value]

\* saved_vars = self.interpreter.variables.copy()
saved_vars(mapping) == mapping

\* finally: self.interpreter.variables = saved_vars
call_finally_keeps(mapping, frame) == mapping
call_finally(mapping, frame) == frame.saved

\* saved_vars is a shallow copy: the finally restores the mapping and leaves
\* the containers as the body left them
containers_restored(containers, frame) == frame.pre_heap
containers_after_call(containers, frame) == containers

\* finally of the for loop: restore the loop variable or remove it
for_finally_restores_only(mapping, frame) ==
    IF frame.had_var THEN Bind(mapping, frame.var, frame.old_var) ELSE mapping
for_finally(mapping, frame) ==
    IF frame.had_var THEN Bind(mapping, frame.var, frame.old_var)
    ELSE Bind(mapping, frame.var, Unbound)

IsLoop(frame) == frame.kind \in {"for", "while", "dowhile"}
CallDepth(frames) == Cardinality({i \in 1..Len(frames) : frames[i].kind = "call"})
InCall(frames) == \E i \in 1..Len(frames) : frames[i].kind = "call"

\* An exception travelling up the host stack: sig is "return"
\* (ReturnException), "break", "continue" or "error" (anything else).  Every
\* frame it leaves runs its finally; the frame that catches it stops it.
\* an unwinding in which a call stops break as it stops return
RECURSIVE UnwindStopsBreakAtCall(_, _, _)
UnwindStopsBreakAtCall(frames, mapping, sig) ==
    IF frames = <<>> THEN [stack |-> <<>>, variables |-> mapping, caught |-> FALSE]
    ELSE LET fr == Head(frames)
             rest == Tail(frames)
         IN  IF fr.kind = "call" THEN
                 IF sig \in {"return", "break"}
                 THEN [stack |-> rest, variables |-> call_finally(mapping, fr), caught |-> TRUE]
                 ELSE UnwindStopsBreakAtCall(rest, call_finally(mapping, fr), sig)
             ELSE LET after == IF fr.kind = "for" THEN for_finally(mapping, fr) ELSE mapping
                  IN  IF sig = "continue"
                      THEN [stack |-> frames, variables |-> mapping, caught |-> TRUE]
                      ELSE IF sig = "break"
                      THEN [stack |-> rest, variables |-> after, caught |-> TRUE]
                      ELSE UnwindStopsBreakAtCall(rest, after, sig)

RECURSIVE Unwind(_, _, _)
Unwind(frames, mapping, sig) ==
    IF frames = <<>> THEN [stack |-> <<>>, variables |-> mapping, caught |-> FALSE]
    ELSE LET fr == Head(frames)
             rest == Tail(frames)
         IN  IF fr.kind = "call" THEN
                 IF sig = "return"
                 THEN [stack |-> rest, variables |-> call_finally(mapping, fr), caught |-> TRUE]
                 ELSE Unwind(rest, call_finally(mapping, fr), sig)
             ELSE LET after == IF fr.kind = "for" THEN for_finally(mapping, fr) ELSE mapping
                  IN  IF sig = "continue"
                      THEN [stack |-> frames, variables |-> mapping, caught |-> TRUE]
                      ELSE IF sig = "break"
                      THEN [stack |-> rest, variables |-> after, caught |-> TRUE]
                      ELSE Unwind(rest, after, sig)

\* The loop at the top of the stack goes on after its body ended (normally
\* or by continue): a for loop binds the next value or ends, a while loop
\* evaluates its condition, whose outcome is `again`.
LoopNextUnchecked(frames, mapping, again) ==
    LET fr == Head(frames)
    IN  IF fr.kind = "for" THEN
            IF fr.items # <<>>
            THEN [stack |-> <<[fr EXCEPT !.items = Tail(@)]>> \o Tail(frames),
                  variables |-> Bind(mapping, fr.var, Head(fr.items))]
            ELSE [stack |-> Tail(frames), variables |-> for_finally(mapping, fr)]
        ELSE IF again \/ fr.kind = "dowhile" THEN [stack |-> frames, variables |-> mapping]
        ELSE [stack |-> Tail(frames), variables |-> mapping]
LoopNext(frames, mapping, again) ==
    LET fr == Head(frames)
    IN  IF fr.kind = "for" THEN
            IF fr.items # <<>>
            THEN [stack |-> <<[fr EXCEPT !.items = Tail(@)]>> \o Tail(frames),
                  variables |-> Bind(mapping, fr.var, Head(fr.items))]
            ELSE [stack |-> Tail(frames), variables |-> for_finally(mapping, fr)]
        ELSE IF again THEN [stack |-> frames, variables |-> mapping]
        ELSE [stack |-> Tail(frames), variables |-> mapping]

\* a statement is evaluated only while no exception has left run
RunningDespiteError == steps < MaxSteps
Running == status = "running" /\ steps < MaxSteps

\* run ends with exception exc: "runtime" for src.errors.RuntimeError and its
\* subclasses, else the name of the host exception.  The event keeps, in
\* pre, the mapping the failing statement ran in.
Raise(exc, event) ==
    LET u == Unwind(stack, variables, "error")
    IN  /\ variables' = u.variables
        /\ stack' = u.stack
        /\ status' = exc
        /\ ev' = [event EXCEPT !.pre = variables]
        /\ steps' = steps + 1
        /\ UNCHANGED <<constants, libraries, heap, evalVars, lexVars, output>>

\* a statement that only rebinds names
Rebind(mapping, event) ==
    /\ variables' = mapping
    /\ ev' = event
    /\ steps' = steps + 1
    /\ UNCHANGED <<libraries, heap, stack, status, evalVars, lexVars, output>>

\* The values a statement's expression can yield without touching the state.
Literals == {IntV(1), IntV(2), LambdaV(1)}
IsFunction(x) == x.k \in {"fun", "lambda"}
ParamNames == <<"p">>
Params(func) == SubSeq(ParamNames, 1, func.n)
ArgLists == {<<>>, <<IntV(1)>>}

Stmt(kind, name, how) == Event(kind, name, how, EmptyMapping, FALSE)

\* a write through a name: flag tells whether the name was bound and locked
\* when the statement ran
Write(kind, name, how) ==
    Event(kind, name, how, EmptyMapping, variables[name] # Unbound /\ name \in constants)

\* if var_name in self.constants: each writing statement and each mutating
\* builtin makes this test on its own before it writes
is_constant_unless_sort(write, name, names) == write # "sort" /\ name \in names
is_constant(write, name, names) == name \in names

\* Containers live in the heap and names hold references to them; an array,
\* dict or set literal makes a new container each time it is evaluated.
IsContainer(value) == value.k \in {"list", "dict", "set"}
Deref(value) == IF value.k = "ref" THEN heap[value.n] ELSE value
FreeAddrs == {x \in Addrs : heap[x] = NoneV}
NextFree == CHOOSE x \in FreeAddrs : \A y \in FreeAddrs : x <= y

\* let name as value;  lock name as value;
VarAssign(name, value, constant) ==
    /\ Running
    /\ IsContainer(value) => FreeAddrs # {}
    /\ constants' = IF constant THEN constants \cup {name} ELSE constants
    /\ heap' = IF IsContainer(value) THEN [heap EXCEPT ![NextFree] = value] ELSE heap
    /\ variables' = Bind(variables, name, IF IsContainer(value) THEN Ref(NextFree) ELSE value)
    /\ ev' = Stmt(IF constant THEN "lock" ELSE "let", name, "done")
    /\ steps' = steps + 1
    /\ UNCHANGED <<libraries, stack, status, evalVars, lexVars, output>>

\* name as value;
VarReassign(name, value) ==
    /\ Running
    /\ IF variables[name] = Unbound \/ is_constant("reassign", name, constants)
       THEN Raise("runtime", Write("reassign", name, "raised"))
       ELSE /\ Rebind(Bind(variables, name, value), Write("reassign", name, "done"))
            /\ UNCHANGED constants

\* +1name;  -1name;  ... (the compound value is a literal)
CompoundAssign(name, op, value) ==
    /\ Running
    /\ IF variables[name] = Unbound \/ is_constant("compound", name, constants)
       THEN Raise("runtime", Write("compound", name, "raised"))
       ELSE LET out == compound_assign(op, variables[name], value)
            IN  IF out.cat = "value"
                THEN /\ Rebind(Bind(variables, name, out.v), Write("compound", name, "done"))
                     /\ UNCHANGED constants
                ELSE Raise(IF out.cat = "runtime" THEN "runtime" ELSE out.exc,
                           Write("compound", name, "raised"))

\* name++;  name--;
Increment(name, op) ==
    /\ Running
    /\ IF variables[name] = Unbound \/ is_constant("increment", name, constants)
       THEN Raise("runtime", Write("increment", name, "raised"))
       ELSE LET out == IF op = "INCREMENT" THEN PyAdd(variables[name], IntV(1))
                       ELSE PySub(variables[name], IntV(1))
            IN  IF out.cat = "value"
                THEN /\ Rebind(Bind(variables, name, out.v), Write("increment", name, "done"))
                     /\ UNCHANGED constants
                ELSE Raise(out.exc, Write("increment", name, "raised"))

\* let [n1, n2] as [v1, v2];  lock [n1, n2] as [v1, v2];  (an array literal;
\* the event's args record its elements)
RECURSIVE BindAll(_, _, _)
BindAll(mapping, var_names, value_list) ==
    IF var_names = <<>> \/ value_list = <<>> THEN mapping
    ELSE BindAll(Bind(mapping, Head(var_names), Head(value_list)),
                 Tail(var_names), Tail(value_list))

Destructure(var_names, value_list, constant) ==
    /\ Running
    /\ IF Len(value_list) < Len(var_names)
       THEN Raise("runtime", [Stmt("destructure", Head(var_names), "raised")
                                 EXCEPT !.args = value_list])
       ELSE /\ constants' = IF constant
                            THEN constants \cup {var_names[i] : i \in 1..Len(var_names)}
                            ELSE constants
            /\ Rebind(BindAll(variables, var_names, value_list),
                      [Stmt("destructure", Head(var_names), "done")
                          EXCEPT !.args = value_list])

\* fun name(params) { ... }
FunctionDef(name, nparams) ==
    /\ Running
    /\ Rebind(Bind(variables, name, FunV(nparams)), Stmt("fundef", name, "done"))
    /\ UNCHANGED constants

\* lib module_path;  Of the names math.main binds, the model's names hold
\* "e" (math.e, here to three decimals); string.main binds none of them.
\* The event names the module path.
MathE == FloatV(2718, 1000)

\* a library import that leaves alone a name that is already bound
LibImportKeepsBound(module_path) ==
    /\ Running
    /\ IF module_path \in {"math.main", "string.main"}
       THEN /\ libraries' = libraries \cup {IF module_path = "math.main" THEN "math" ELSE "string"}
            /\ variables' = IF module_path = "math.main" /\ variables["e"] = Unbound
                            THEN Bind(variables, "e", MathE)
                            ELSE variables
            /\ ev' = Stmt("import", module_path, "done")
            /\ steps' = steps + 1
            /\ UNCHANGED <<constants, heap, stack, status, evalVars, lexVars, output>>
       ELSE Raise("runtime", Stmt("import", module_path, "raised"))

LibImport(module_path) ==
    /\ Running
    /\ IF module_path = "math.main"
       THEN /\ libraries' = libraries \cup {"math"}
            /\ variables' = Bind(variables, "e", MathE)
            /\ ev' = Stmt("import", module_path, "done")
            /\ steps' = steps + 1
            /\ UNCHANGED <<constants, heap, stack, status, evalVars, lexVars, output>>
       ELSE IF module_path = "string.main"
       THEN /\ libraries' = libraries \cup {"string"}
            /\ ev' = Stmt("import", module_path, "done")
            /\ steps' = steps + 1
            /\ UNCHANGED <<variables, constants, heap, stack, status, evalVars, lexVars, output>>
       ELSE Raise("runtime", Stmt("import", module_path, "raised"))

\* name(args);  with name bound to a user function or lambda: the arity
\* check, saved_vars, the parameters bound; the body is evaluated by the
\* steps that follow.  Any other name of the model is no builtin and holds
\* nothing callable.  The host's recursion limit is RecursionLimit calls.
\* The event's flag tells whether the callee was a function or lambda given
\* a number of arguments other than its number of parameters.
arity_at_most(func, args) == Len(args) <= func.n
arity_matches(func, args) == Len(args) = func.n

Call(name, args) ==
    /\ Running
    /\ LET func == variables[name]
           CallEvent(how) ==
               Event("call", name, how, EmptyMapping, IsFunction(func) /\ Len(args) # func.n)
       IN  IF ~IsFunction(func)
           THEN Raise("runtime", CallEvent("raised"))
           ELSE IF ~arity_matches(func, args)
           THEN Raise("runtime", CallEvent("arity"))
           ELSE IF CallDepth(stack) >= RecursionLimit
           THEN Raise("RecursionError", CallEvent("overflow"))
           ELSE /\ stack' = <<CallFrame(saved_vars(variables), variables, heap)>> \o stack
                /\ variables' = BindAll(variables, Params(func), args)
                /\ ev' = CallEvent("entered")
                /\ steps' = steps + 1
                /\ UNCHANGED <<constants, libraries, heap, status, evalVars, lexVars, output>>

\* let target as name(args);  The call as in Call; the frame remembers the
\* name the declaration binds when the call has returned, and the function
\* called (which only properties read).
CallInto(target, name, args) ==
    /\ Running
    /\ LET func == variables[name]
           CallEvent(how) ==
               Event("call", name, how, EmptyMapping, IsFunction(func) /\ Len(args) # func.n)
       IN  IF ~IsFunction(func)
           THEN Raise("runtime", CallEvent("raised"))
           ELSE IF ~arity_matches(func, args)
           THEN Raise("runtime", CallEvent("arity"))
           ELSE IF CallDepth(stack) >= RecursionLimit
           THEN Raise("RecursionError", CallEvent("overflow"))
           ELSE /\ stack' = <<[CallFrame(saved_vars(variables), variables, heap) EXCEPT
                                  !.var = target, !.callee = func]>> \o stack
                /\ variables' = BindAll(variables, Params(func), args)
                /\ ev' = CallEvent("entered")
                /\ steps' = steps + 1
                /\ UNCHANGED <<constants, libraries, heap, status, evalVars, lexVars, output>>

\* The body of the innermost call ran to its end.
\* a call that, when its body ends, also drops from the constant set the
\* names whose bindings it discards
CompleteDroppingConstants ==
    /\ Running
    /\ stack # <<>> /\ Head(stack).kind = "call"
    /\ variables' = call_finally(variables, Head(stack))
    /\ stack' = Tail(stack)
    /\ heap' = containers_after_call(heap, Head(stack))
    /\ ev' = Returned("complete", Head(stack))
    /\ steps' = steps + 1
    /\ constants' = {n \in constants : call_finally(variables, Head(stack))[n] # Unbound}
    /\ UNCHANGED <<libraries, status, evalVars, lexVars, output>>

Complete ==
    /\ Running
    /\ stack # <<>> /\ Head(stack).kind = "call"
    /\ variables' = call_finally(variables, Head(stack))
    /\ stack' = Tail(stack)
    /\ heap' = containers_after_call(heap, Head(stack))
    /\ ev' = Returned("complete", Head(stack))
    /\ steps' = steps + 1
    /\ UNCHANGED <<constants, libraries, status, evalVars, lexVars, output>>

InnermostCall(frames) == frames[CHOOSE i \in 1..Len(frames) :
    frames[i].kind = "call" /\ \A j \in 1..(i - 1) : frames[j].kind # "call"]

\* A control-flow exception is raised: it is caught by the frame Unwind
\* finds, or it leaves run as the host exception it is.
Signal(sig, exc, caughtEvent, again) ==
    LET u == Unwind(stack, variables, sig)
        n == IF u.caught /\ sig = "continue" THEN LoopNext(u.stack, u.variables, again) ELSE u
    IN  /\ variables' = n.variables
        /\ stack' = n.stack
        /\ heap' = IF u.caught /\ sig = "return"
                    THEN containers_after_call(heap, InnermostCall(stack)) ELSE heap
        /\ status' = IF u.caught THEN status ELSE exc
        /\ ev' = IF u.caught THEN caughtEvent ELSE Event(sig, "", "escaped", EmptyMapping, TRUE)
        /\ steps' = steps + 1
        /\ UNCHANGED <<constants, libraries, evalVars, lexVars, output>>

\* return value;
Return ==
    /\ Running
    /\ Signal("return", "ReturnException",
              IF InCall(stack) THEN Returned("return", InnermostCall(stack)) ELSE NoEvent,
              FALSE)

\* a lambda value; no field of PuffingLambda holds a mapping, and env, the
\* mapping current when the lambda expression was evaluated, is kept for
\* properties to read
LambdaIn(nparams, env) == V("lambda", nparams, 1, <<env>>)

\* return lamb (params) => ...;  in the body of a call made by
\* let target as name(args);  the call restores its caller's mapping and the
\* declaration then binds target to the lambda in it
ReturnLambda(nparams) ==
    /\ Running
    /\ InCall(stack) /\ InnermostCall(stack).var # ""
    /\ LET fr == InnermostCall(stack)
           u == Unwind(stack, variables, "return")
       IN  /\ variables' = Bind(u.variables, fr.var, LambdaIn(nparams, variables))
           /\ stack' = u.stack
           /\ heap' = containers_after_call(heap, fr)
           /\ ev' = [Returned("return", fr) EXCEPT !.kind = "let", !.name = fr.var]
    /\ steps' = steps + 1
    /\ UNCHANGED <<constants, libraries, status, evalVars, lexVars, output>>

\* the kind of the body a statement is evaluated in: of a call, of a loop,
\* or none at top level
BodyKind == IF stack = <<>> THEN "" ELSE Head(stack).kind

\* break;  (the event names the kind of the body the statement was in and
\* keeps, in pre, the mapping it ran in)
Break ==
    /\ Running
    /\ Signal("break", "BreakException", Event("break", BodyKind, "caught", variables, FALSE),
              FALSE)

\* continue;  (again: the outcome of a while condition evaluated next, which
\* the event's flag records)
Continue(again) ==
    /\ Running
    /\ Signal("continue", "ContinueException",
              Event("continue", BodyKind, "caught", variables, again), again)

\* for var in items { ... }  over an array literal or range
ForLoop(var, items) ==
    /\ Running
    /\ LET fr == ForFrame(var, variables[var] # Unbound, variables[var], items, variables)
           n == LoopNext(<<fr>> \o stack, variables, FALSE)
       IN  /\ variables' = n.variables
           /\ stack' = n.stack
    /\ ev' = Stmt("for", var, "entered")
    /\ steps' = steps + 1
    /\ UNCHANGED <<constants, libraries, heap, status, evalVars, lexVars, output>>

\* while cond { ... }  and  do { ... } while cond;  cond is the outcome of
\* the first evaluation of the condition (a do-while evaluates none).
WhileLoop(kind, cond) ==
    /\ Running
    /\ stack' = IF kind = "dowhile" \/ cond THEN <<WhileFrame(kind)>> \o stack ELSE stack
    /\ ev' = Stmt(kind, "", "entered")
    /\ steps' = steps + 1
    /\ UNCHANGED <<variables, constants, libraries, heap, status, evalVars, lexVars, output>>

\* The body of the innermost loop ran to its end.
EndOfBody(again) ==
    /\ Running
    /\ stack # <<>> /\ IsLoop(Head(stack))
    /\ LET n == LoopNext(stack, variables, again)
       IN  /\ variables' = n.variables
           /\ stack' = n.stack
    /\ ev' = Stmt("endbody", "", "done")
    /\ steps' = steps + 1
    /\ UNCHANGED <<constants, libraries, heap, status, evalVars, lexVars, output>>

-----------------------------------------------------------------------------
(* Containers.  The mapping holds Ref(addr); heap[addr] is the list, dict  *)
(* or set object.  A builtin that mutates in place yields the value it     *)
(* returns and the new contents of the object.                             *)

IsKey(key) == key.k \in {"str", "int", "float", "bool"}
IsSetElement(value) == IsKey(value) \/ value.k = "none"

\* the position of key among the keys of a dict (odd positions), or 0
DictFind(kvs, key) ==
    LET hits == {i \in 1..Len(kvs) : i % 2 = 1 /\ PyEq(kvs[i], key)}
    IN  IF hits = {} THEN 0 ELSE CHOOSE i \in hits : TRUE

\* dict_val[key] = value
DictSet(kvs, key, value) ==
    IF DictFind(kvs, key) = 0 THEN kvs \o <<key, value>>
    ELSE [kvs EXCEPT ![DictFind(kvs, key) + 1] = value]

\* del dict_val[key]
DictDel(kvs, key) ==
    LET i == DictFind(kvs, key)
    IN  SubSeq(kvs, 1, i - 1) \o SubSeq(kvs, i + 2, Len(kvs))

\* dict_val.update(other_dict)
RECURSIVE DictUpdate(_, _)
DictUpdate(kvs, other) ==
    IF other = <<>> THEN kvs
    ELSE DictUpdate(DictSet(kvs, other[1], other[2]), SubSeq(other, 3, Len(other)))

SetHas(es, value) == \E i \in 1..Len(es) : PyEq(es[i], value)
SetDel(es, value) == SelectSeq(es, LAMBDA x : ~PyEq(x, value))

\* array.sort(): insertion of each element before the first greater one; a
\* pair of elements without order makes the host raise TypeError
Sortable(es) == \A i, j \in 1..Len(es) : PyOrder(es[i], es[j]) # "TypeError"
RECURSIVE PySort(_)
PySort(es) ==
    IF es = <<>> THEN <<>>
    ELSE LET body == PySort(SubSeq(es, 1, Len(es) - 1))
             x == es[Len(es)]
             at == Cardinality({i \in 1..Len(body) : PyOrder(body[i], x) \in {"lt", "eq"}})
         IN  SubSeq(body, 1, at) \o <<x>> \o SubSeq(body, at + 1, Len(body))

\* a list, dict or set is unhashable: looking one up in a set or a dict makes
\* the host raise TypeError
Unhashable(value) == value.k \in {"list", "dict", "set", "ref"}

With(container, items) == LET c2 == [container EXCEPT !.s = items] IN ValueIn(c2, c2)

\* the mutating builtins of eval_function_call and _handle_array_functions,
\* after the first argument has been resolved to `container`
MutatingBuiltins ==
    {"push", "pop", "shift", "unshift", "insert", "remove", "clear", "reverse", "sort",
     "set", "delete_key", "clear_dict", "update",
     "set_add", "set_remove", "set_discard", "set_clear"}

BuiltinArity(func_name) ==
    CASE func_name \in {"pop", "shift", "clear", "reverse", "sort", "clear_dict", "set_clear"} -> 1
      [] func_name \in {"insert", "set"} -> 3
      [] OTHER -> 2

Mutate(func_name, container, args) ==
    LET es == container.s
        IsA(kind) == container.k = kind
    IN  CASE func_name = "push" ->
                IF ~IsA("list") THEN RuntimeErr(container) ELSE With(container, Append(es, args[1]))
          [] func_name = "pop" ->
                IF ~IsA("list") \/ es = <<>> THEN RuntimeErr(container)
                ELSE With(container, SubSeq(es, 1, Len(es) - 1))
          [] func_name = "shift" ->
                IF ~IsA("list") \/ es = <<>> THEN RuntimeErr(container)
                ELSE With(container, Tail(es))
          [] func_name = "unshift" ->
                IF ~IsA("list") THEN RuntimeErr(container) ELSE With(container, <<args[1]>> \o es)
          [] func_name = "insert" -> ArrInsert(container, args[1], args[2])
          [] func_name = "remove" -> ArrRemove(container, args[1])
          [] func_name = "clear" ->
                IF ~IsA("list") THEN RuntimeErr(container) ELSE With(container, <<>>)
          [] func_name = "reverse" ->
                IF ~IsA("list") THEN RuntimeErr(container)
                ELSE With(container, [i \in 1..Len(es) |-> es[Len(es) + 1 - i]])
          [] func_name = "sort" ->
                IF ~IsA("list") \/ ~Sortable(es) THEN RuntimeErr(container)
                ELSE With(container, PySort(es))
          [] func_name = "set" ->
                IF ~IsA("dict") \/ ~IsKey(args[1]) THEN RuntimeErr(container)
                ELSE With(container, DictSet(es, args[1], args[2]))
          [] func_name = "delete_key" ->
                IF ~IsA("dict") THEN RuntimeErr(container)
                ELSE IF Unhashable(args[1]) THEN HostErr("TypeError", container)
                ELSE IF DictFind(es, args[1]) = 0 THEN With(container, es)
                ELSE With(container, DictDel(es, args[1]))
          [] func_name = "clear_dict" ->
                IF ~IsA("dict") THEN RuntimeErr(container) ELSE With(container, <<>>)
          [] func_name = "update" ->
                IF ~IsA("dict") \/ args[1].k # "dict" THEN RuntimeErr(container)
                ELSE With(container, DictUpdate(es, args[1].s))
          [] func_name = "set_add" ->
                IF ~IsA("set") \/ ~IsSetElement(args[1]) THEN RuntimeErr(container)
                ELSE IF SetHas(es, args[1]) THEN With(container, es)
                ELSE With(container, Append(es, args[1]))
          [] func_name = "set_remove" ->
                IF ~IsA("set") THEN RuntimeErr(container)
                ELSE IF Unhashable(args[1]) THEN HostErr("TypeError", container)
                ELSE IF ~SetHas(es, args[1]) THEN RuntimeErr(container)
                ELSE With(container, SetDel(es, args[1]))
          [] func_name = "set_discard" ->
                IF ~IsA("set") THEN RuntimeErr(container)
                ELSE IF Unhashable(args[1]) THEN HostErr("TypeError", container)
                ELSE With(container, SetDel(es, args[1]))
          [] func_name = "set_clear" ->
                IF ~IsA("set") THEN RuntimeErr(container) ELSE With(container, <<>>)

\* Interpreter.eval, IndexAssignNode with one key: target[key] = new_value
index_assign(target, key, new_value) ==
    IF target.k = "dict" THEN
        IF ~IsKey(key) THEN RuntimeErr(target)
        ELSE ValueIn(new_value, [target EXCEPT !.s = DictSet(target.s, key, new_value)])
    ELSE AssignItem(target, key, new_value)

\* Interpreter.eval, IndexAssignNode: name[key] as new_value; the value and
\* the key are evaluated before the name is looked up
IndexAssign(name, key, new_value) ==
    /\ Running
    /\ IF variables[name] = Unbound \/ is_constant("index", name, constants)
       THEN Raise("runtime", Write("index", name, "raised"))
       ELSE LET out == index_assign(Deref(variables[name]), key, new_value)
            IN  IF out.cat = "value"
                THEN /\ heap' = [heap EXCEPT ![variables[name].n] = out.arr]
                     /\ ev' = Write("index", name, "done")
                     /\ steps' = steps + 1
                     /\ UNCHANGED <<variables, constants, libraries, stack, status,
                                    evalVars, lexVars, output>>
                ELSE Raise(IF out.cat = "runtime" THEN "runtime" ELSE out.exc,
                           Write("index", name, "raised"))

\* Interpreter.eval_function_call, a mutating builtin whose first argument is
\* a bare name: func_name(name, args...);
MutatingBuiltin(func_name, name, args) ==
    /\ Running
    /\ IF \/ Len(args) + 1 # BuiltinArity(func_name)
          \/ variables[name] = Unbound
          \/ is_constant(func_name, name, constants)
       THEN Raise("runtime", Write(func_name, name, "raised"))
       ELSE LET out == Mutate(func_name, Deref(variables[name]), args)
            IN  IF out.cat = "value"
                THEN /\ heap' = [heap EXCEPT ![variables[name].n] = out.arr]
                     /\ ev' = Write(func_name, name, "done")
                     /\ steps' = steps + 1
                     /\ UNCHANGED <<variables, constants, libraries, stack, status,
                                    evalVars, lexVars, output>>
                ELSE Raise(IF out.cat = "runtime" THEN "runtime" ELSE out.exc,
                           Write(func_name, name, "raised"))

\* The default specification: every program of at most MaxSteps steps over
\* the statements that bind names, call, return, loop, break and continue.
Init ==
    /\ RunIdle /\ EvalIdle /\ LexerIdle

Next ==
    \/ \E value \in {IntV(1), LambdaV(1)}, constant \in BOOLEAN :
            VarAssign("e", value, constant)
    \/ \E name \in {"e", "p"} : VarReassign(name, IntV(2))
    \/ CompoundAssign("e", "PLUS", IntV(1))
    \/ \E op \in {"INCREMENT", "DECREMENT"} : Increment("e", op)
    \/ \E values \in {<<IntV(1)>>, <<IntV(2), IntV(1)>>}, constant \in BOOLEAN :
            Destructure(<<"e", "p">>, values, constant)
    \/ \E nparams \in 0..Len(ParamNames) : FunctionDef("f", nparams)
    \/ \E path \in {"math.main", "string.main", "os.main"} : LibImport(path)
    \/ \E name \in {"e", "f"}, args \in ArgLists : Call(name, args)
    \/ Complete
    \/ Return
    \/ Break
    \/ \E again \in BOOLEAN : Continue(again)
    \/ \E items \in {<<>>, <<IntV(1), IntV(2)>>} : ForLoop("p", items)
    \/ \E kind \in {"while", "dowhile"}, cond \in BOOLEAN : WhileLoop(kind, cond)
    \/ \E again \in BOOLEAN : EndOfBody(again)

Spec == Init /\ [][Next]_vars

\* C1: after every call of a user function or lambda that ends by running
\* its body to completion or by return, at any depth, the mapping binds
\* every name the caller had to the value it had immediately before the
\* call and holds no other name, whatever the body rebound.
C1_CallRestoresMapping ==
    ev.kind = "returned" => variables = ev.pre

\* a call nested in another call ended by return after its body had changed
\* the mapping
C1_Witness ==
    /\ ev.kind = "returned" /\ ev.how = "return" /\ ev.flag
    /\ InCall(stack)
    /\ status = "running"

\* C7: break or continue evaluated while no loop is running, or return
\* evaluated while no call is active, makes run fail with an error of the
\* runtime category; the control-flow exception never leaves run.
C7_StraySignalIsRuntimeError ==
    (ev.kind \in {"break", "continue", "return"} /\ ev.how = "escaped")
        => status = "runtime"

\* C8: a call evaluated when the host's recursion limit is reached makes run
\* fail with a runtime-category error, never with the host's own
\* recursion failure.
C8_RecursionLimitIsRuntimeError ==
    (ev.kind = "call" /\ ev.how = "overflow") => status = "runtime"

\* C13: a call of a function or lambda with a number of arguments other than
\* its number of parameters ends the run with a runtime error in that one
\* step, and binds nothing: the mapping is the one the call found, as the
\* finally clauses of the enclosing calls and loops leave it, and no container
\* and no lock mark has changed.
C13_ArityMismatchBindsNothing ==
    [][(ev'.kind = "call" /\ ev'.flag)
          => /\ status' = "runtime"
             /\ steps' = steps + 1
             /\ variables' = Unwind(stack, variables, "error").variables
             /\ heap' = heap /\ constants' = constants]_vars

\* a lambda of one parameter bound to e was called with no argument
C13_Witness ==
    /\ ev.kind = "call" /\ ev.flag /\ ev.name = "e"
    /\ variables["e"] = LambdaV(1)
    /\ status = "runtime"

\* C18: once a name is declared with lock, no let, lock, destructuring or
\* library import executed at top level changes the value bound to it.
C18_LockSurvivesDeclarations ==
    [][\A n \in Names :
          (/\ n \in constants /\ variables[n] # Unbound /\ stack = <<>>
           /\ ev'.kind \in {"let", "lock", "destructure", "import"})
              => variables'[n] = variables[n]]_vars

\* the innermost running loop and the frames around it
InnermostLoop(frames) ==
    CHOOSE i \in 1..Len(frames) : IsLoop(frames[i]) /\ \A j \in 1..(i - 1) : ~IsLoop(frames[j])
Enclosing(frames) == SubSeq(frames, InnermostLoop(frames) + 1, Len(frames))

\* C20: break ends the innermost running loop and leaves every loop around
\* it as it was, to go on; continue leaves the rest of the body and makes the
\* innermost loop take its next element (for) or evaluate its condition
\* (while and do-while alike), ending it when there is no element or the
\* condition is false; a do-while starts its body whatever its condition is.
C20_BreakAndContinueAreInnermost ==
    [][/\ (ev'.kind = "break" /\ ev'.how = "caught") => stack' = Enclosing(stack)
       /\ (ev'.kind = "continue" /\ ev'.how = "caught")
             => LET fr == stack[InnermostLoop(stack)]
                IN  IF fr.kind = "for"
                    THEN IF fr.items # <<>>
                         THEN /\ stack' = <<[fr EXCEPT !.items = Tail(@)]>> \o Enclosing(stack)
                              /\ variables'[fr.var] = Head(fr.items)
                         ELSE stack' = Enclosing(stack)
                    ELSE stack' = IF ev'.flag THEN <<fr>> \o Enclosing(stack)
                                  ELSE Enclosing(stack)
       /\ (ev'.kind = "dowhile" /\ ev'.how = "entered")
             => stack' = <<WhileFrame("dowhile")>> \o stack]_vars

\* break ended a loop nested in a for loop that has an element left
C20_Witness ==
    /\ ev.kind = "break" /\ ev.how = "caught" /\ status = "running"
    /\ stack # <<>> /\ Head(stack).kind = "for" /\ Head(stack).items # <<>>

\* the mapping at the call site: the one saved by the call made from the
\* body of the innermost running loop
MappingAtCallSite(frames) == frames[InnermostLoop(frames) - 1].saved

-----------------------------------------------------------------------------
(* For loops over the name p, bound before the loop or not, whose bodies    *)
(* reassign p, declare it, call functions, break, continue, return and fail.*)

InitFor == RunIdle /\ EvalIdle /\ LexerIdle

NextFor ==
    \/ VarAssign("p", IntV(1), FALSE)
    \/ \E items \in {<<>>, <<IntV(2), IntV(3)>>} : ForLoop("p", items)
    \/ \E name \in {"p", "e"} : VarReassign(name, IntV(2))
    \/ \E nparams \in 0..Len(ParamNames) : FunctionDef("f", nparams)
    \/ \E args \in ArgLists : Call("f", args)
    \/ Complete
    \/ Return
    \/ Break
    \/ Continue(FALSE)
    \/ EndOfBody(FALSE)

SpecFor == InitFor /\ [][NextFor]_vars

\* the frame at depth d, counted from the outermost one
FrameAt(frames, d) == frames[Len(frames) - d + 1]

\* C19: when a step ends a for loop, by exhaustion, break, return or error,
\* the loop variable is bound afterwards as the mapping bound it when the
\* loop was entered (unbound if it was not bound).  Of several loops over
\* the same variable that end in one step the outermost decides, and a loop
\* that ends inside a call that ends in the same step is not observed: the
\* caller's mapping replaces the one it restored.
C19_ForLoopRestoresVariable ==
    [][\A d \in 1..Len(stack) :
          (/\ FrameAt(stack, d).kind = "for"
           /\ d > Len(stack')
           /\ \A c \in (Len(stack') + 1)..(d - 1) :
                 /\ FrameAt(stack, c).kind # "call"
                 /\ FrameAt(stack, c).var # FrameAt(stack, d).var)
              => variables'[FrameAt(stack, d).var] =
                     FrameAt(stack, d).pre[FrameAt(stack, d).var]]_vars

\* a for loop over p, entered with p bound to 1, ended by break: p is 1
C19_Witness ==
    /\ ev.kind = "break" /\ ev.how = "caught" /\ stack = <<>>
    /\ variables["p"] = IntV(1)

-----------------------------------------------------------------------------
(* Writes through a name: the program declares a with let or lock, holding  *)
(* a number or a fresh array, dict or set, and then applies every writing   *)
(* statement and every mutating builtin to it.                              *)

LockValues ==
    {IntV(1), ListV(<<IntV(2), IntV(1)>>), DictV(<<IntV(1), IntV(2)>>), SetV(<<IntV(1)>>)}

\* the remaining arguments of a call of a mutating builtin, already evaluated
BuiltinArgs(func_name) ==
    CASE BuiltinArity(func_name) = 1 -> <<>>
      [] BuiltinArity(func_name) = 3 -> <<IntV(1), IntV(2)>>
      [] func_name = "update" -> <<DictV(<<IntV(2), IntV(2)>>)>>
      [] OTHER -> <<IntV(1)>>

WriteKinds == {"reassign", "compound", "increment", "index"} \cup MutatingBuiltins

InitLock == RunIdle /\ EvalIdle /\ LexerIdle

NextLock ==
    \/ \E value \in LockValues, constant \in BOOLEAN : VarAssign("a", value, constant)
    \/ VarReassign("a", IntV(2))
    \/ CompoundAssign("a", "PLUS", IntV(1))
    \/ \E op \in {"INCREMENT", "DECREMENT"} : Increment("a", op)
    \/ IndexAssign("a", IntV(1), IntV(2))
    \/ \E func_name \in MutatingBuiltins : MutatingBuiltin(func_name, "a", BuiltinArgs(func_name))

SpecLock == InitLock /\ [][NextLock]_vars

\* C3: a write through a name that is bound and was declared with lock (a
\* reassignment, a compound assignment, ++ or --, an index assignment, or one
\* of the 17 mutating builtins with the bare name as first argument) ends the
\* run with a runtime error and leaves every name bound to the value it had
\* and every container with the contents it had.
C3_LockedNameRejectsWrites ==
    [][(ev'.kind \in WriteKinds /\ ev'.flag)
          => (status' = "runtime" /\ variables' = variables /\ heap' = heap)]_vars

C3_Witness ==
    /\ ev.kind = "sort" /\ ev.flag /\ ev.how = "raised"
    /\ status = "runtime"
    /\ variables[ev.name].k = "ref"
    /\ heap[variables[ev.name].n] = ListV(<<IntV(2), IntV(1)>>)

-----------------------------------------------------------------------------
(* Containers shared with a call: the program binds a to a fresh container, *)
(* defines f, calls f with the bare name a as argument (or with none), and  *)
(* the body writes through the parameter p and through the name a.          *)

ShareValues == {ListV(<<IntV(1)>>), DictV(<<IntV(1), IntV(1)>>), SetV(<<IntV(2)>>)}

InitShare == RunIdle /\ EvalIdle /\ LexerIdle

NextShare ==
    \/ \E value \in ShareValues : VarAssign("a", value, FALSE)
    \/ \E nparams \in 0..Len(ParamNames) : FunctionDef("f", nparams)
    \/ \E value \in {variables["a"]} \ {Unbound} : Call("f", <<value>>)
    \/ Call("f", <<>>)
    \/ \E name \in {"a", "p"}, func_name \in {"push", "update", "set_add"} :
          MutatingBuiltin(func_name, name, BuiltinArgs(func_name))
    \/ \E name \in {"a", "p"} : IndexAssign(name, IntV(1), IntV(2))
    \/ \E name \in {"a", "p"} : VarReassign(name, IntV(2))
    \/ Complete
    \/ Return

SpecShare == InitShare /\ [][NextShare]_vars

\* C2: when a call ends, every name that the caller had bound to a container
\* is bound to that same container, and the container holds what the body of
\* the call left in it: an in-place change made inside the call is seen
\* through the caller's name afterwards.
C2_CallKeepsContainerMutation ==
    [][ev'.kind = "returned"
          => \A n \in Names :
                ev'.pre[n].k = "ref"
                   => /\ variables'[n] = ev'.pre[n]
                      /\ heap'[ev'.pre[n].n] = heap[ev'.pre[n].n]]_vars

\* a call that received a and pushed onto it through p has returned, and a
\* holds the element
C2_Witness ==
    /\ ev.kind = "returned" /\ ev.touched
    /\ status = "running" /\ stack = <<>>
    /\ variables["a"].k = "ref"
    /\ heap[variables["a"].n] = ListV(<<IntV(1), IntV(1)>>)

-----------------------------------------------------------------------------
(* Failure: the program binds a to a number or a fresh array, writes to it  *)
(* at top level, in a for loop over p and in the body of f, and some        *)
(* statement fails: a reassignment of the unbound e, a push onto a number,  *)
(* a pop from an empty array, a call with a missing argument.               *)

InitAbort == RunIdle /\ EvalIdle /\ LexerIdle

NextAbort ==
    \/ \E value \in {IntV(1), ListV(<<>>)} : VarAssign("a", value, FALSE)
    \/ \E name \in {"a", "e", "p"} : VarReassign(name, IntV(2))
    \/ \E func_name \in {"push", "pop"} :
          MutatingBuiltin(func_name, "a", BuiltinArgs(func_name))
    \/ \E nparams \in 0..Len(ParamNames) : FunctionDef("f", nparams)
    \/ Call("f", <<>>)
    \/ ForLoop("p", <<IntV(1)>>)
    \/ Complete
    \/ EndOfBody(FALSE)

SpecAbort == InitAbort /\ [][NextAbort]_vars

\* the mapping of the top level: the one the outermost running call saved,
\* or the current one when no call is running
TopLevelMapping(frames, mapping) ==
    LET calls == {i \in 1..Len(frames) : frames[i].kind = "call"}
    IN  IF calls = {} THEN mapping
        ELSE frames[CHOOSE i \in calls : \A j \in calls : j <= i].saved

\* the variables of the for loops running at top level
TopLevelLoopVars(frames) ==
    {frames[i].var : i \in {j \in 1..Len(frames) :
                              /\ frames[j].kind = "for"
                              /\ \A k \in j..Len(frames) : frames[k].kind # "call"}}

BeforeTopLevelLoop(frames, n) ==
    LET loops == {j \in 1..Len(frames) :
                    /\ frames[j].kind = "for" /\ frames[j].var = n
                    /\ \A k \in j..Len(frames) : frames[k].kind # "call"}
        outer == frames[CHOOSE j \in loops : \A k \in loops : k <= j]
    IN  IF outer.had_var THEN outer.old_var ELSE Unbound

\* C27 as stated: when an error is raised at call depth d >= 1, the mapping
\* after the failed run is the top-level mapping as it was when the outermost
\* active call started, and the containers are as the failing body left them.
C27_ErrorRestoresTopLevelMapping ==
    [][(status = "running" /\ status' # "running" /\ InCall(stack))
          => /\ variables' = TopLevelMapping(stack, variables)
             /\ stack' = <<>>
             /\ heap' = heap]_vars

\* C27 amended: the same, except that the variable of each for loop running
\* around the outermost active call is bound as it was before that loop, or
\* unbound if it was not bound then.
C27_ErrorRestoresMappingButLoopVariables ==
    [][(status = "running" /\ status' # "running" /\ InCall(stack))
          => /\ \A n \in Names :
                   variables'[n] = IF n \in TopLevelLoopVars(stack)
                                   THEN BeforeTopLevelLoop(stack, n)
                                   ELSE TopLevelMapping(stack, variables)[n]
             /\ stack' = <<>>
             /\ heap' = heap]_vars

\* the run failed at depth 1 in f, after f had rebound a: a is bound again
\* to the array the top level had bound to it
C27_Witness ==
    /\ status = "runtime" /\ stack = <<>>
    /\ ev.kind = "reassign" /\ ev.how = "raised"
    /\ ev.pre["a"] = IntV(1)
    /\ variables["a"].k = "ref" /\ heap[variables["a"].n] = ListV(<<>>)
    /\ variables["f"] # Unbound /\ variables["p"] = Unbound

-----------------------------------------------------------------------------
(* print(value1, value2, ...);  Every argument is evaluated and formatted   *)
(* first; then the formatted texts are joined and written to sys.stdout.    *)

\* type(x).__name__ of a value, as characters
TypeName(x) ==
    CASE x.k = "none"  -> Chars(<<78, 111, 110, 101, 84, 121, 112, 101>>)
      [] x.k = "bool"  -> Chars(<<98, 111, 111, 108>>)
      [] x.k = "int"   -> Chars(<<105, 110, 116>>)
      [] x.k = "float" -> Chars(<<102, 108, 111, 97, 116>>)
      [] x.k = "str"   -> Chars(<<115, 116, 114>>)
      [] OTHER         -> Chars(<<108, 105, 115, 116>>)

\* key=lambda x: (type(x).__name__, x)
sort_key(x) == ListV(<<StrV(TypeName(x)), x>>)

\* sorted(val, key=...): a stable insertion by the order of the keys
RECURSIVE sorted_by_key(_)
sorted_by_key(es) ==
    IF es = <<>> THEN <<>>
    ELSE LET body == sorted_by_key(SubSeq(es, 1, Len(es) - 1))
             x == es[Len(es)]
             at == Cardinality({i \in 1..Len(body) :
                                  PyOrder(sort_key(body[i]), sort_key(x)) \in {"lt", "eq"}})
         IN  SubSeq(body, 1, at) \o <<x>> \o SubSeq(body, at + 1, Len(body))

\* f'"{elem}"' if isinstance(elem, str) else str(elem)
format_element(elem) ==
    IF elem.k = "str" THEN Chars(<<34>>) \o elem.s \o Chars(<<34>>) ELSE PyStr(elem)

\* the text appended to values for one evaluated argument
format_value(val) ==
    CASE val.k = "list" ->
            Chars(<<91>>)
                \o JoinText([i \in 1..Len(val.s) |-> format_element(val.s[i])],
                            Chars(<<44, 32>>))
                \o Chars(<<93>>)
      [] val.k = "set" ->
            Chars(<<35, 123>>)
                \o JoinText([i \in 1..Len(val.s) |-> format_element(sorted_by_key(val.s)[i])],
                            Chars(<<44, 32>>))
                \o Chars(<<125>>)
      [] val.k = "dict" ->
            Chars(<<123>>)
                \o JoinText([i \in 1..(Len(val.s) \div 2) |->
                                format_element(val.s[2 * i - 1]) \o Chars(<<58, 32>>)
                                    \o format_element(val.s[2 * i])],
                            Chars(<<44, 32>>))
                \o Chars(<<125>>)
      [] OTHER -> PyStr(val)

\* what the host's own print would write: the texts separated by a space and
\* ended by a newline
joined_as_line(values) ==
    JoinText([i \in 1..Len(values) |-> format_value(values[i])], Chars(<<32>>))
        \o Chars(<<10>>)

\* output = ''.join(values)
joined(values) == JoinText([i \in 1..Len(values) |-> format_value(values[i])], <<>>)

\* an argument expression of print: a literal or the access of a name
Literal(value) == [node |-> "literal", name |-> "", value |-> value]
VarAccess(name) == [node |-> "var", name |-> name, value |-> NoneV]

\* val = self.eval(value_node): the access of a name that is not bound raises
ArgValueLexical(arg) ==
    IF arg.node # "var" THEN arg.value
    ELSE IF /\ variables[arg.name] = Unbound /\ InCall(stack)
            /\ InnermostCall(stack).callee.k = "lambda"
            /\ InnermostCall(stack).callee.s # <<>>
         THEN InnermostCall(stack).callee.s[1][arg.name]
         ELSE variables[arg.name]
ArgValue(arg) == IF arg.node = "var" THEN variables[arg.name] ELSE arg.value

\* print(value_nodes);  an argument that raises does so before anything of
\* this statement is written
print_statement(value_nodes) ==
    /\ Running
    /\ IF \E i \in 1..Len(value_nodes) : ArgValue(value_nodes[i]) = Unbound
       THEN Raise("runtime", Stmt("print", "", "raised"))
       ELSE LET values == [i \in 1..Len(value_nodes) |-> Deref(ArgValue(value_nodes[i]))]
            IN  /\ output' = output \o joined(values)
                /\ ev' = [Stmt("print", "", "done") EXCEPT !.args = values]
                /\ steps' = steps + 1
                /\ UNCHANGED <<variables, constants, libraries, heap, stack, status,
                               evalVars, lexVars>>

\* Programs that print literals and names, at top level, in the body of a
\* for loop and in the body of a function, among statements that fail.
LetterH == Chars(<<104>>)
PrintedValues ==
    {StrV(LetterH), ListV(<<IntV(2), StrV(LetterH)>>), SetV(<<IntV(2), IntV(1)>>)}
PrintArgs ==
    {<<>>, <<Literal(IntV(1))>>, <<Literal(StrV(LetterH)), Literal(IntV(1))>>,
     <<VarAccess("a")>>, <<Literal(IntV(1)), VarAccess("e")>>,
     <<VarAccess("p"), Literal(BoolV(TRUE))>>,
     <<Literal(DictV(<<IntV(1), StrV(LetterH)>>)), Literal(FloatV(3, 2))>>}

InitOutput == RunIdle /\ EvalIdle /\ LexerIdle

NextOutput ==
    \/ \E value \in PrintedValues : VarAssign("a", value, FALSE)
    \/ \E value_nodes \in PrintArgs : print_statement(value_nodes)
    \/ VarReassign("e", IntV(2))
    \/ FunctionDef("f", 0)
    \/ Call("f", <<>>)
    \/ Complete
    \/ ForLoop("p", <<IntV(1), IntV(2)>>)
    \/ EndOfBody(FALSE)
    \/ Break

SpecOutput == InitOutput /\ [][NextOutput]_vars

RECURSIVE Flatten(_)
Flatten(texts) == IF texts = <<>> THEN <<>> ELSE Head(texts) \o Flatten(Tail(texts))

\* C15: a print statement that completes appends to the emitted text the
\* formatted texts of its arguments, one right after the other, with nothing
\* between them and nothing after them; no other step, and no statement that
\* fails, changes the emitted text.  So the emitted text is at every moment,
\* and after a failure, the concatenation in execution order of what the
\* completed prints wrote.
C15_OutputIsConcatenation ==
    [][IF status' = "running" /\ ev'.kind = "print"
       THEN output' = output \o Flatten([i \in 1..Len(ev'.args) |-> format_value(ev'.args[i])])
       ELSE output' = output]_vars

\* print("h", 1) ran, then print([2, "h"]) through the name a, then a print
\* with an unbound name failed: the text is h1[2, "h"]
C15_Witness ==
    /\ status = "runtime" /\ ev.kind = "print" /\ ev.how = "raised"
    /\ output = Chars(<<104, 49, 91, 50, 44, 32, 34, 104, 34, 93>>)

-----------------------------------------------------------------------------
(* The reference cipher of the mission 7 grader, on texts given by the code *)
(* points of their characters.                                              *)

\* str.isupper and str.islower of one character of the first 256 code points
isupper(c) == c \in (65..90) \cup (192..214) \cup (216..222)
islower(c) == c \in (97..122) \cup {170, 181, 186} \cup (223..246) \cup (248..255)

\* the character appended to result for char
caesar_char(c, key) ==
    IF isupper(c) THEN ((c - 65 + key) % 26) + 65
    ELSE IF islower(c) THEN ((c - 97 + key) % 26) + 97
    ELSE c

caesar_encrypt(text, key) == [i \in 1..Len(text) |-> caesar_char(text[i], key)]

caesar_decrypt(text, key) == caesar_encrypt(text, -key)

\* Texts of at most MaxCipherLen characters over the first and last letter of
\* each case, a space, a digit and an accented letter of each case; keys from
\* -MaxKey to MaxKey, more than one turn of the alphabet either way.
MaxCipherLen == 2
MaxKey == 27
CipherChars == {65, 90, 97, 122, 32, 49, 201, 233}
CipherTexts == UNION {[1..n -> CipherChars] : n \in 0..MaxCipherLen}

InitCipher ==
    /\ \E text \in CipherTexts, key \in (-MaxKey)..MaxKey :
          call = [op |-> "caesar", text |-> text, key |-> key]
    /\ result = Pending
    /\ LexerIdle /\ RunIdle

DoEncrypt ==
    /\ call.op = "caesar" /\ result = Pending
    /\ result' = [cat |-> "encrypted", enc |-> caesar_encrypt(call.text, call.key)]
    /\ UNCHANGED <<call, lexVars, runVars>>

DoDecrypt ==
    /\ call.op = "caesar" /\ result.cat = "encrypted"
    /\ result' = [cat |-> "decrypted", enc |-> result.enc,
                  dec |-> caesar_decrypt(result.enc, call.key)]
    /\ UNCHANGED <<call, lexVars, runVars>>

NextCipher == DoEncrypt \/ DoDecrypt

SpecCipher == InitCipher /\ [][NextCipher]_vars

\* one pass keeps a character that is no letter and maps a letter to a letter
\* of its case
PassKeepsClass(from, to) ==
    /\ Len(to) = Len(from)
    /\ \A i \in 1..Len(from) :
          /\ ~(isupper(from[i]) \/ islower(from[i])) => to[i] = from[i]
          /\ isupper(from[i]) => isupper(to[i])
          /\ islower(from[i]) => islower(to[i])

\* C16: decrypting with key k what encrypting with k gave is the text again;
\* each of the two passes leaves every character that is no letter as it is
\* and maps every letter to a letter of the same case.
C16_CaesarRoundTrip ==
    result.cat = "decrypted"
        => /\ result.dec = call.text
           /\ PassKeepsClass(call.text, result.enc)
           /\ PassKeepsClass(result.enc, result.dec)

-----------------------------------------------------------------------------
(* Mutating builtins whose first argument is not a bare name: the branch    *)
(* `else: array = self.eval(array_arg)` of each of them.                    *)

\* name[key] as an argument expression
IndexAccess(name, key) == [node |-> "index", name |-> name, value |-> key]

\* self.eval(array_arg) for an array literal or an index expression: a
\* literal yields a new container that no name holds, an index expression
\* yields the element itself, which for a container is the very object the
\* indexed container holds
eval_first_arg(arg) ==
    IF arg.node = "literal" THEN Value(arg.value)
    ELSE IF variables[arg.name] = Unbound THEN RuntimeErr(NoneV)
    ELSE EvalIndexAccess(Deref(variables[arg.name]), arg.value)

\* func_name(array_arg, args...);  array_arg is no bare name: no test of
\* self.constants is made
MutatingBuiltinOnValue(func_name, array_arg, args) ==
    /\ Running
    /\ LET first == eval_first_arg(array_arg)
           out == Mutate(func_name, Deref(first.v), args)
       IN  IF \/ Len(args) + 1 # BuiltinArity(func_name)
              \/ first.cat # "value"
              \/ out.cat # "value"
           THEN Raise("runtime", Stmt(func_name, "", "raised"))
           ELSE /\ heap' = IF first.v.k = "ref"
                           THEN [heap EXCEPT ![first.v.n] = out.arr] ELSE heap
                /\ ev' = Stmt(func_name, "", "done")
                /\ steps' = steps + 1
                /\ UNCHANGED <<variables, constants, libraries, stack, status,
                               evalVars, lexVars, output>>

\* let name as [elem];  an array literal whose one element is the name elem
LetArrayOf(name, elem) ==
    /\ variables[elem] # Unbound
    /\ VarAssign(name, ListV(<<variables[elem]>>), FALSE)

\* Programs that bind a to a number or a fresh container, bind p to an array
\* holding a's value (let p as [a];) and apply the mutating builtins to the
\* bare name a, to the index expressions p[1] and p[2], and to literals.
InitAlias == RunIdle /\ EvalIdle /\ LexerIdle

NextAlias ==
    \/ \E value \in LockValues : VarAssign("a", value, FALSE)
    \/ LetArrayOf("p", "a")
    \/ \E func_name \in {"push", "sort", "update", "set_add"} :
          MutatingBuiltin(func_name, "a", BuiltinArgs(func_name))
    \/ \E func_name \in MutatingBuiltins :
          MutatingBuiltinOnValue(func_name, IndexAccess("p", IntV(1)), BuiltinArgs(func_name))
    \/ MutatingBuiltinOnValue("push", IndexAccess("p", IntV(2)), BuiltinArgs("push"))
    \/ \E func_name \in {"push", "set_add"}, value \in LockValues :
          MutatingBuiltinOnValue(func_name, Literal(value), BuiltinArgs(func_name))

SpecAlias == InitAlias /\ [][NextAlias]_vars

\* what a program can observe through a value: the value with every
\* container it refers to, in the containers h
RECURSIVE Observed(_, _)
Observed(value, h) ==
    IF value.k = "ref" THEN Observed(h[value.n], h)
    ELSE IF IsContainer(value)
         THEN [value EXCEPT !.s = [i \in 1..Len(value.s) |-> Observed(value.s[i], h)]]
         ELSE value

\* C17: a mutating builtin that succeeds on a bare name leaves the container
\* bound to the name as the operation makes it; one that succeeds on any
\* other first argument leaves what is observable through every name as it
\* was.
C17_OnlyBareNamesMutate ==
    [][(ev'.kind \in MutatingBuiltins /\ ev'.how = "done")
          => IF ev'.name # ""
             THEN Observed(variables'[ev'.name], heap') =
                      Observed(Mutate(ev'.kind, Deref(variables[ev'.name]),
                                      BuiltinArgs(ev'.kind)).arr, heap)
             ELSE \A n \in Names :
                      Observed(variables'[n], heap') = Observed(variables[n], heap)]_vars

-----------------------------------------------------------------------------
(* Free names in bodies: f is defined with or without the parameter p, is   *)
(* called (also from its own body and from the body of a lambda), returns a *)
(* lambda made in its body to a top-level declaration of e, and the bodies  *)
(* read the name p.                                                         *)

\* let name as value;  at top level
TopLevelLet(name, value) ==
    /\ stack = <<>>
    /\ VarAssign(name, value, FALSE)

\* the body of a call made by a call statement ran to its end
CompleteStatement ==
    /\ stack # <<>> /\ Head(stack).var = ""
    /\ Complete

InitScope == RunIdle /\ EvalIdle /\ LexerIdle

NextScope ==
    \/ \E nparams \in 0..Len(ParamNames) : FunctionDef("f", nparams)
    \/ \E args \in ArgLists : CallInto("e", "f", args)
    \/ \E name \in {"e", "f"}, args \in ArgLists : CallInto("", name, args)
    \/ ReturnLambda(0)
    \/ CompleteStatement
    \/ TopLevelLet("p", IntV(2))
    \/ print_statement(<<VarAccess("p")>>)

SpecScope == InitScope /\ [][NextScope]_vars

\* C21: (1) a call evaluated in the body of the function f, of f itself or
\* of another name, finds the callee in the mapping current then: the call of
\* f does not fail as a call of something not callable (f was bound when its
\* body was invoked), and a call of any name fails so exactly when the
\* current mapping binds no function or lambda to it;  (2) a read of p in the
\* body of a lambda without parameters yields what the mapping that invoked
\* the lambda bound to p and raises when that mapping did not bind p,
\* whatever the mapping bound when the lambda was made.
C21_FreeNamesResolveAtInvocation ==
    [][/\ (ev'.kind = "call" /\ InCall(stack) /\ InnermostCall(stack).callee.k = "fun"
              /\ ev'.name = "f")
            => ev'.how # "raised"
       /\ ev'.kind = "call" => (ev'.how = "raised" <=> ~IsFunction(variables[ev'.name]))
       /\ (ev'.kind = "print" /\ InCall(stack) /\ InnermostCall(stack).callee.k = "lambda")
            => LET invoking == InnermostCall(stack).pre
               IN  IF invoking["p"] = Unbound
                   THEN ev'.how = "raised" /\ status' = "runtime"
                   ELSE ev'.how = "done" /\ ev'.args = <<invoking["p"]>>]_vars

\* f(1) returned a lambda made where p was 1; the lambda, called at top
\* level where p is not bound, read p and failed
C21_Witness ==
    /\ status = "runtime" /\ ev.kind = "print" /\ ev.how = "raised"
    /\ variables["e"].k = "lambda"
    /\ variables["e"].s # <<>> /\ variables["e"].s[1]["p"] = IntV(1)
    /\ variables["p"] = Unbound

-----------------------------------------------------------------------------
(* Destructuring declarations of the two names e and p from array literals  *)
(* of no, one, two and three elements, among declarations and writes of e.  *)

UnpackNames == <<"e", "p">>
UnpackValues == {<<>>, <<IntV(1)>>, <<IntV(2), IntV(1)>>, <<IntV(1), IntV(2), IntV(3)>>}

InitUnpack == RunIdle /\ EvalIdle /\ LexerIdle

NextUnpack ==
    \/ \E value_list \in UnpackValues, constant \in BOOLEAN :
          Destructure(UnpackNames, value_list, constant)
    \/ \E constant \in BOOLEAN : VarAssign("e", IntV(4), constant)
    \/ \E name \in {"e", "p"} : VarReassign(name, IntV(5))

SpecUnpack == InitUnpack /\ [][NextUnpack]_vars

\* C22: a destructuring declaration whose array has another number of
\* elements than it has names, fewer or more, fails with a runtime error,
\* binds no name and adds none to the constants.
C22_UnpackLengthMismatchIsError ==
    [][(ev'.kind = "destructure" /\ Len(ev'.args) # Len(UnpackNames))
          => /\ ev'.how = "raised" /\ status' = "runtime"
             /\ variables' = variables /\ constants' = constants]_vars

(***************************************************************************)
(* Library imports: the two known module paths and the unknown ones, at    *)
(* top level and inside a call.                                            *)
(***************************************************************************)
ModulePaths == {"math.main", "string.main", "os.main", "math"}

\* the registry key and the table of a known module path; the table is cut
\* to the model's names
LibraryKey(module_path) == IF module_path = "math.main" THEN "math" ELSE "string"
LibraryTable(module_path) ==
    [n \in Names |-> IF module_path = "math.main" /\ n = "e" THEN MathE ELSE Unbound]

InitImport == RunIdle /\ EvalIdle /\ LexerIdle

NextImport ==
    \/ \E module_path \in ModulePaths : LibImport(module_path)
    \/ \E constant \in BOOLEAN : VarAssign("e", IntV(1), constant)
    \/ VarAssign("p", IntV(2), FALSE)
    \/ FunctionDef("f", 0)
    \/ Call("f", <<>>)
    \/ Complete

SpecImport == InitImport /\ [][NextImport]_vars

TypeAt(tokens, pos) == IF pos <= Len(tokens) THEN tokens[pos].type ELSE "none"

\* the inner while: skips to the position after the bracket that closes the
\* group, or to the end of the tokens
RECURSIVE skip_bracket_pair_flat(_, _, _)
skip_bracket_pair_flat(tokens, temp_pos, bracket_count) ==
    IF temp_pos <= Len(tokens) /\ bracket_count > 0
    THEN skip_bracket_pair_flat(tokens, temp_pos + 1,
            IF tokens[temp_pos].type = "RBRACKET" THEN bracket_count - 1 ELSE bracket_count)
    ELSE temp_pos

RECURSIVE skip_bracket_pair(_, _, _)
skip_bracket_pair(tokens, temp_pos, bracket_count) ==
    IF temp_pos <= Len(tokens) /\ bracket_count > 0
    THEN skip_bracket_pair(tokens, temp_pos + 1,
            IF tokens[temp_pos].type = "LBRACKET" THEN bracket_count + 1
            ELSE IF tokens[temp_pos].type = "RBRACKET" THEN bracket_count - 1
            ELSE bracket_count)
    ELSE temp_pos

\* the outer while: keeps scanning while it finds brackets
RECURSIVE scan_bracket_pairs(_, _)
scan_bracket_pairs(tokens, temp_pos) ==
    IF temp_pos <= Len(tokens) /\ tokens[temp_pos].type = "LBRACKET"
    THEN scan_bracket_pairs(tokens, skip_bracket_pair(tokens, temp_pos + 1, 1))
    ELSE temp_pos

\* the method Parser.statement hands a statement to whose first token, at
\* pos, is an IDENT
statement(tokens, pos) ==
    LET next_token == TypeAt(tokens, pos + 1)
    IN  IF next_token \in {"INCREMENT", "DECREMENT"} THEN "postfix_increment"
        ELSE IF /\ next_token = "LBRACKET"
                /\ TypeAt(tokens, scan_bracket_pairs(tokens, pos + 1)) = "AS"
        THEN "index_assign"
        ELSE IF next_token = "AS" THEN "var_reassign"
        ELSE "expr"

\* SpecStatement: every statement of at most MaxStatementTokens tokens that
\* starts  a [  and goes on with identifiers, brackets, as and ; , first
\* in the program or after the statement  a ; .
MaxStatementTokens == 8
StatementTokens ==
    {Token("IDENT", NameX)}
        \cup {Token(type, <<>>) : type \in {"LBRACKET", "RBRACKET", "AS", "SEMICOLON"}}
StatementPrefixes == {<<>>, <<Token("IDENT", NameX), Token("SEMICOLON", <<>>)>>}

InitStatement ==
    /\ \E before \in StatementPrefixes :
       \E n \in 0..(MaxStatementTokens - 2) : \E rest \in [1..n -> StatementTokens] :
          call = [op |-> "statement",
                  tokens |-> before \o <<Token("IDENT", NameX), Token("LBRACKET", <<>>)>>
                                \o rest \o <<Token("EOF", <<>>)>>,
                  pos |-> Len(before) + 1]
    /\ result = Pending
    /\ LexerIdle /\ RunIdle

DoStatement ==
    /\ call.op = "statement" /\ result = Pending
    /\ result' = [cat |-> "dispatched", method |-> statement(call.tokens, call.pos)]
    /\ UNCHANGED <<call, lexVars, runVars>>

NextStatement == DoStatement

SpecStatement == InitStatement /\ [][NextStatement]_vars

\* opening minus closing brackets among the tokens at i..j
RECURSIVE BracketBalance(_, _, _)
BracketBalance(tokens, i, j) ==
    IF i > j THEN 0
    ELSE BracketBalance(tokens, i, j - 1)
            + (IF tokens[j].type = "LBRACKET" THEN 1
               ELSE IF tokens[j].type = "RBRACKET" THEN -1 ELSE 0)

\* the bracket that closes the group opened at i, 0 when none does
ClosingBracket(tokens, i) ==
    LET closers == {j \in i..Len(tokens) : BracketBalance(tokens, i, j) = 0}
    IN  IF closers = {} THEN 0
        ELSE CHOOSE j \in closers : \A k \in closers : j <= k

\* the position after the last of the consecutive groups that start at i, 0
\* when one of them is not closed
RECURSIVE AfterGroups(_, _)
AfterGroups(tokens, i) ==
    IF TypeAt(tokens, i) # "LBRACKET" THEN i
    ELSE IF ClosingBracket(tokens, i) = 0 THEN 0
    ELSE AfterGroups(tokens, ClosingBracket(tokens, i) + 1)

\* C24: a statement that starts with an identifier and one or more bracket
\* groups is handed to index_assign exactly when the token right after the
\* bracket that closes the last of the consecutive groups is  as , counting
\* brackets nested in a group as part of it, and to the expression statement
\* in every other case.
C24_IndexAssignIffAsAfterGroups ==
    (call.op = "statement" /\ result # Pending) =>
        LET after == AfterGroups(call.tokens, call.pos + 1)
        IN  result.method = IF after # 0 /\ TypeAt(call.tokens, after) = "AS"
                            THEN "index_assign"
                            ELSE "expr"

\* a[[]][] as : two groups, the first with a group nested in it
C24_Witness ==
    /\ call.op = "statement" /\ result # Pending
    /\ result.method = "index_assign"
    /\ TypesOf(call.tokens) = <<"IDENT", "LBRACKET", "LBRACKET", "RBRACKET", "RBRACKET",
                                "LBRACKET", "RBRACKET", "AS", "EOF">>

(***************************************************************************)
(* Parser.primary on a left brace: the lookahead that tells a dictionary   *)
(* literal from a brace the expression grammar has no use for.             *)
(***************************************************************************)
\* while temp_pos < len(self.tokens) and temp_pos < self.pos + 15
LookaheadWindow == 15

\* a scan that takes a colon at any depth
RECURSIVE find_colon_at_any_depth(_, _, _, _, _, _)
find_colon_at_any_depth(tokens, pos, temp_pos, paren_depth, bracket_depth, brace_depth) ==
    IF ~(temp_pos <= Len(tokens) /\ temp_pos < pos + LookaheadWindow) THEN FALSE
    ELSE LET t == tokens[temp_pos].type
         IN  CASE t = "COLON" -> TRUE
               [] t = "RBRACE" /\ brace_depth = 0 -> FALSE
               [] t = "SEMICOLON" -> FALSE
               [] OTHER ->
                    find_colon_at_any_depth(tokens, pos, temp_pos + 1, 0, 0,
                        IF t = "LBRACE" THEN brace_depth + 1
                        ELSE IF t = "RBRACE" THEN brace_depth - 1 ELSE brace_depth)

\* the while loop of the brace branch: found_colon when it ends
RECURSIVE find_colon(_, _, _, _, _, _)
find_colon(tokens, pos, temp_pos, paren_depth, bracket_depth, brace_depth) ==
    IF ~(temp_pos <= Len(tokens) /\ temp_pos < pos + LookaheadWindow) THEN FALSE
    ELSE LET t == tokens[temp_pos].type
         IN  CASE t = "LPAREN" ->
                    find_colon(tokens, pos, temp_pos + 1,
                               paren_depth + 1, bracket_depth, brace_depth)
               [] t = "RPAREN" ->
                    find_colon(tokens, pos, temp_pos + 1,
                               paren_depth - 1, bracket_depth, brace_depth)
               [] t = "LBRACKET" ->
                    find_colon(tokens, pos, temp_pos + 1,
                               paren_depth, bracket_depth + 1, brace_depth)
               [] t = "RBRACKET" ->
                    find_colon(tokens, pos, temp_pos + 1,
                               paren_depth, bracket_depth - 1, brace_depth)
               [] t = "LBRACE" ->
                    find_colon(tokens, pos, temp_pos + 1,
                               paren_depth, bracket_depth, brace_depth + 1)
               [] t = "RBRACE" ->
                    IF brace_depth > 0
                    THEN find_colon(tokens, pos, temp_pos + 1,
                                    paren_depth, bracket_depth, brace_depth - 1)
                    ELSE FALSE
               [] t = "COLON" /\ paren_depth = 0 /\ bracket_depth = 0 /\ brace_depth = 0 ->
                    TRUE
               [] t = "SEMICOLON" -> FALSE
               [] OTHER ->
                    find_colon(tokens, pos, temp_pos + 1,
                               paren_depth, bracket_depth, brace_depth)

\* what primary does with the LBRACE at pos: the method it calls, or the
\* ParserError it raises
primary_brace(tokens, pos) ==
    IF TypeAt(tokens, pos + 1) = "none" THEN "ParserError"
    ELSE IF TypeAt(tokens, pos + 1) = "RBRACE" THEN "dict_literal"
    ELSE IF find_colon(tokens, pos, pos + 1, 0, 0, 0) THEN "dict_literal"
    ELSE "ParserError"

\* SpecBrace: a left brace, first in the program or after  a ; , followed by
\* a run of numbers (none, or one that reaches the end of the window) and by
\* at most MaxBraceTokens tokens among colon, semicolon, the three kinds of
\* brackets and a number.
MaxBraceTokens == 3
BraceTokenTypes ==
    {"COLON", "SEMICOLON", "LBRACE", "RBRACE", "LPAREN", "RPAREN", "LBRACKET", "RBRACKET",
     "NUMBER"}
BraceFillers == {0, LookaheadWindow - 3, LookaheadWindow - 2, LookaheadWindow - 1}

InitBrace ==
    /\ \E before \in StatementPrefixes, fill \in BraceFillers :
       \E n \in 0..MaxBraceTokens : \E rest \in [1..n -> BraceTokenTypes] :
          call = [op |-> "primary",
                  tokens |-> before \o <<Token("LBRACE", <<>>)>>
                                \o [i \in 1..fill |-> Token("NUMBER", <<>>)]
                                \o [i \in 1..n |-> Token(rest[i], <<>>)]
                                \o <<Token("EOF", <<>>)>>,
                  pos |-> Len(before) + 1]
    /\ result = Pending
    /\ LexerIdle /\ RunIdle

DoPrimary ==
    /\ call.op = "primary" /\ result = Pending
    /\ result' = [cat |-> "dispatched", method |-> primary_brace(call.tokens, call.pos)]
    /\ UNCHANGED <<call, lexVars, runVars>>

NextBrace == DoPrimary

SpecBrace == InitBrace /\ [][NextBrace]_vars

\* the tokens of one type among those at i..j
CountType(tokens, i, j, type) == Cardinality({k \in i..j : tokens[k].type = type})
Depth(tokens, i, j, open, close) ==
    CountType(tokens, i, j, open) - CountType(tokens, i, j, close)

\* the token at j ends the scan that started after the brace at pos: a
\* semicolon, or a right brace that closes no brace opened since
EndsScan(tokens, pos, j) ==
    \/ tokens[j].type = "SEMICOLON"
    \/ /\ tokens[j].type = "RBRACE"
       /\ Depth(tokens, pos + 1, j, "LBRACE", "RBRACE") < 0

\* a colon in the window at depth zero of all three kinds, with nothing
\* before it that ends the scan
ColonAtDepthZero(tokens, pos) ==
    \E c \in (pos + 1)..(pos + LookaheadWindow - 1) :
        /\ c <= Len(tokens)
        /\ tokens[c].type = "COLON"
        /\ Depth(tokens, pos + 1, c - 1, "LPAREN", "RPAREN") = 0
        /\ Depth(tokens, pos + 1, c - 1, "LBRACKET", "RBRACKET") = 0
        /\ Depth(tokens, pos + 1, c - 1, "LBRACE", "RBRACE") = 0
        /\ \A j \in (pos + 1)..(c - 1) : ~EndsScan(tokens, pos, j)

\* C25: a left brace in expression position is handed to dict_literal
\* exactly when the next token is a right brace or when, within the window
\* of the lookahead, a colon at paren, bracket and brace depth zero comes
\* before any semicolon and before any right brace that closes nothing; in
\* every other case primary raises a ParserError.
C25_BraceIsDictIffColon ==
    (call.op = "primary" /\ result # Pending) =>
        result.method =
            IF \/ TypeAt(call.tokens, call.pos + 1) = "RBRACE"
               \/ ColonAtDepthZero(call.tokens, call.pos)
            THEN "dict_literal"
            ELSE "ParserError"

\* { { } : , the colon after a nested pair of braces is found
C25_Witness ==
    /\ call.op = "primary" /\ result # Pending
    /\ result.method = "dict_literal"
    /\ \E c \in 1..Len(call.tokens) :
          /\ call.tokens[c].type = "COLON"
          /\ CountType(call.tokens, call.pos + 1, c - 1, "LBRACE") > 0
          /\ \A j \in (call.pos + 1)..(c - 1) : call.tokens[j].type # "COLON"

(***************************************************************************)
(* Termination of tokenize.  The loop of tokenize is sequential code that  *)
(* keeps running until it leaves the loop or raises, so a step that is     *)
(* possible is eventually taken.                                            *)
(***************************************************************************)
SpecLexerLive == InitLexer /\ [][NextLexer]_vars /\ WF_vars(NextLexer)

EofPositions(tokens) == {i \in 1..Len(tokens) : tokens[i].type = "EOF"}

\* C26: tokenize terminates on every source text: each iteration of its main
\* loop consumes at least one character or raises a LexerError, and the run
\* comes to an end; and the sequence tokenize returns has one end-of-input
\* token, which is its last.
C26_TokenizeTerminatesWithOneEof ==
    /\ [][(lexed.status = "running" /\ current_char(lexer) # NoChar)
            => (lexer'.pos > lexer.pos \/ lexed'.status = "LexerError")]_vars
    /\ [](lexed.status = "done" => EofPositions(lexed.tokens) = {Len(lexed.tokens)})
    /\ <>(lexed.status # "running")

\* tokenize returned from a text of MaxTextLen characters after a comment,
\* whitespace and a token
C26_Witness ==
    /\ lexed.status = "done"
    /\ Len(lexer.text) = MaxTextLen
    /\ Len(lexed.tokens) = 2
    /\ lexer.text[1] = Question /\ lexer.text[2] = Newline /\ lexer.text[3] = Newline

(***************************************************************************)
(* The constant set across calls: lock in the body of f, the end of the    *)
(* call, and declarations and writes of the name afterwards.               *)
(***************************************************************************)
InitConstants == RunIdle /\ EvalIdle /\ LexerIdle

NextConstants ==
    \/ FunctionDef("f", 0)
    \/ Call("f", <<>>)
    \/ Complete
    \/ Return
    \/ \E value \in {IntV(1), ListV(<<IntV(1)>>)}, constant \in BOOLEAN :
          VarAssign("e", value, constant)
    \/ VarReassign("e", IntV(2))
    \/ CompoundAssign("e", "PLUS", IntV(1))
    \/ \E op \in {"INCREMENT", "DECREMENT"} : Increment("e", op)
    \/ IndexAssign("e", IntV(1), IntV(2))

SpecConstants == InitConstants /\ [][NextConstants]_vars

\* C29: no step takes a name out of the constant set; lock puts its name in
\* it, in a call body as at top level; the end of a call leaves the set as
\* the body left it while the mapping goes back to the caller's; a let of a
\* name that is in the set succeeds and binds it; and a reassignment, a
\* compound assignment, ++ or -- or an index assignment of a bound name
\* that is in the set ends the run with a runtime error and writes nothing.
C29_ConstantsOutliveCalls ==
    [][/\ constants \subseteq constants'
       /\ ev'.kind = "lock" => ev'.name \in constants'
       /\ ev'.kind = "returned"
             => /\ constants' = constants
                /\ variables' = ev'.pre
       /\ (ev'.kind = "let" /\ ev'.name \in constants)
             => /\ status' = "running"
                /\ variables'[ev'.name] # Unbound
                /\ ev'.name \in constants'
       /\ (/\ ev'.kind \in {"reassign", "compound", "increment", "index"}
           /\ ev'.name \in constants /\ variables[ev'.name] # Unbound)
             => /\ status' = "runtime" /\ ev'.how = "raised"
                /\ heap' = heap
                /\ stack = <<>> => variables' = variables]_vars

\* f declared e with lock and returned: e is in the constant set and bound
\* to nothing
C29_Witness ==
    /\ ev.kind = "returned" /\ status = "running" /\ stack = <<>>
    /\ "e" \in constants
    /\ variables["e"] = Unbound
    /\ variables["f"] # Unbound

(***************************************************************************)
(* range(...): the node the parser builds from one, two or three           *)
(* arguments and the list the interpreter makes of it.  The arguments are  *)
(* integers, so that int() leaves them as they are.                        *)
(***************************************************************************)
\* list(range(start, stop, step)) of the host: start, start + step, ... as
\* long as the value is before stop in the direction of step
RECURSIVE PyRange(_, _, _)
PyRange(start, stop, step) ==
    IF (step > 0 /\ start < stop) \/ (step < 0 /\ start > stop)
    THEN <<IntV(start)>> \o PyRange(start + step, stop, step)
    ELSE <<>>

\* RangeNode(NumberNode(1), args[0], NumberNode(1))  etc.
range_node(args) ==
    CASE Len(args) = 1 -> [start |-> 1, stop |-> args[1], step |-> 1]
      [] Len(args) = 2 -> [start |-> args[1], stop |-> args[2], step |-> 1]
      [] Len(args) = 3 -> [start |-> args[1], stop |-> args[2], step |-> args[3]]

\* return list(range(int(start), int(stop) + 1, int(step)))
eval_range(node) ==
    IF node.step = 0 THEN HostErr("ValueError", NoneV)
    ELSE Value(ListV(PyRange(node.start, node.stop + 1, node.step)))

\* SpecRange: range of one, two or three integers between -MaxRange and
\* MaxRange.
MaxRange == 3
RangeInts == (0 - MaxRange)..MaxRange
RangeArgs == UNION {[1..n -> RangeInts] : n \in 1..3}

InitRange ==
    /\ \E args \in RangeArgs : call = [op |-> "range", args |-> args]
    /\ result = Pending
    /\ LexerIdle /\ RunIdle

DoRange ==
    /\ call.op = "range" /\ result = Pending
    /\ result' = eval_range(range_node(call.args))
    /\ UNCHANGED <<call, lexVars, runVars>>

NextRange == DoRange

SpecRange == InitRange /\ [][NextRange]_vars

\* a, a + s, a + 2s, ... up to and including the last one not beyond b
InclusiveRange(a, b, s) ==
    LET count == IF s > 0 THEN (IF b < a THEN 0 ELSE ((b - a) \div s) + 1)
                 ELSE (IF b > a THEN 0 ELSE ((a - b) \div (0 - s)) + 1)
    IN  [i \in 1..count |-> IntV(a + (i - 1) * s)]

\* C30: range is inclusive at both ends: range(n) is 1, ..., n; range(a, b)
\* is a, ..., b; range(a, b, s) with s not zero, ascending or descending, is
\* a, a + s, a + 2s, ... up to the last value not beyond b, so it holds b
\* when b = a + i * s for some i >= 0, and it is empty when b lies on the
\* wrong side of a for the sign of s.
C30_RangeIsInclusive ==
    (call.op = "range" /\ result # Pending) =>
        LET args == call.args
            a == IF Len(args) = 1 THEN 1 ELSE args[1]
            b == IF Len(args) = 1 THEN args[1] ELSE args[2]
            s == IF Len(args) = 3 THEN args[3] ELSE 1
        IN  s # 0 => result = Value(ListV(InclusiveRange(a, b, s)))

====
